---- MODULE Spec2Model ----
(***************************************************************************)
(* Model of the Clenja lending contracts: PoolVault (share ledger),        *)
(* LoanManager (loan ledger, accrual, repayment split), RiskRules          *)
(* (validator) and MockVerifier, together with the ERC20 asset balances    *)
(* the contracts move.  Every external entry point is one action; a call   *)
(* that reverts leaves every variable unchanged (the EVM rolls the whole   *)
(* transaction back); the history variable last records the latest call   *)
(* that did not revert.                                                    *)
(***************************************************************************)
EXTENDS Integers, FiniteSets, Sequences, TLC

(* ------------------------------ addresses ------------------------------ *)
ZERO     == "0x0"
OWNER    == "owner"
LM       == "LoanManager"
VAULT    == "PoolVault"
TREASURY == "treasury"
VERIFIER == "MockVerifier"
Users    == {"alice", "bob"}
Holders  == Users \cup {OWNER, LM, VAULT, TREASURY}

(* ------------------------------ constants ------------------------------ *)
(* The clock counts whole days: the Solidity unit `days` (86400 seconds) is *)
(* scaled to 1, which leaves every quotient of accruedInterest unchanged   *)
(* when timestamps are whole days and keeps the products in range.         *)
DAY              == 1
BPS_DENOMINATOR  == 10000
SECONDS_PER_YEAR == 365 * DAY

(* ------------------------------- bounds -------------------------------- *)
MaxAmount    == 2
MaxPrincipal == 1
MaxLoans     == 2
MaxPoolLoans == 1
MaxYears     == 1
StepsPerYear == 5
InitBalance  == 2
MaxPool      == 4

Amounts      == 0..MaxAmount
Principals   == 0..MaxPrincipal
RepayAmounts == 0..(MaxAmount + 1)
LoanIds      == 0..(MaxLoans + 1)

VARIABLES
    totalShares, totalAssets, outstandingLoans, shares,
    loanManager, loanManagerSet,
    loanCount, loans, agentFeeBps, agentTreasury, totalAgentFees,
    rules, verified,
    bal, now, last,
    frame

vaultVars == <<totalShares, totalAssets, outstandingLoans, shares>>
bindVars  == <<loanManager, loanManagerSet>>
lmVars    == <<loanCount, loans, totalAgentFees>>
feeVars   == <<agentFeeBps, agentTreasury>>
rrVars    == <<rules, verified>>
vars == <<totalShares, totalAssets, outstandingLoans, shares,
          loanManager, loanManagerSet,
          loanCount, loans, agentFeeBps, agentTreasury, totalAgentFees,
          rules, verified, bal, now, last, frame>>

(* ------------------------------- helpers ------------------------------- *)
RECURSIVE SumOver(_, _)
SumOver(f, S) ==
    IF S = {} THEN 0
    ELSE LET x == CHOOSE y \in S : TRUE IN f[x] + SumOver(f, S \ {x})

Min(a, b) == IF a <= b THEN a ELSE b

NoArgs == [amt |-> 0, amt2 |-> 0, to |-> ZERO, from |-> ZERO, id |-> 0]

NoTrip == [phase |-> "none", X |-> 0, A0 |-> 0, S0 |-> 0, h0 |-> 0,
           A1 |-> 0, S1 |-> 0]


EmptyLoan ==
    [borrower |-> ZERO, principal |-> 0, principalRepaid |-> 0,
     interestPaid |-> 0, aprBps |-> 0, startTime |-> 0, duration |-> 0,
     lastPaymentTime |-> 0, metadataHash |-> 0, active |-> FALSE,
     disbursed |-> FALSE]

(* ERC20 transfer of amt from a to b (SafeERC20: reverts when a cannot pay) *)
CanPay(a, amt) == bal[a] >= amt
Transfer(b, a, to, amt) ==
    IF a = to THEN b
    ELSE [b EXCEPT ![a] = @ - amt, ![to] = @ + amt]

(* ------------------------------ PoolVault ------------------------------ *)
(* the conversion rounding up *)
convertToSharesUp(assets) ==
    IF totalShares = 0 \/ totalAssets = 0
    THEN assets
    ELSE (assets * totalShares + totalAssets - 1) \div totalAssets

convertToShares(assets) ==
    IF totalShares = 0 \/ totalAssets = 0
    THEN assets
    ELSE (assets * totalShares) \div totalAssets

convertToAssets(sh) ==
    IF totalShares = 0
    THEN 0
    ELSE (sh * totalAssets) \div totalShares

(* History of a deposit-to-self that is immediately followed by the        *)
(* withdrawal of convertToAssets(convertToShares(X)) by the same account:  *)
(* X, the pool (A0, S0) and the account's shares h0 before the deposit,   *)
(* and the pool (A1, S1) between the two calls.                            *)
TripAfter(op, caller, args) ==
    IF op = "deposit" /\ args.to = caller
    THEN [NoTrip EXCEPT !.phase = "deposited", !.X = args.amt,
                        !.A0 = totalAssets, !.S0 = totalShares,
                        !.h0 = shares[caller]]
    ELSE IF /\ op = "withdraw"
            /\ last.op = "deposit"
            /\ last.trip.phase = "deposited"
            /\ last.caller = caller
            /\ args.to = caller
            /\ args.amt = convertToAssets(convertToShares(last.trip.X))
    THEN [last.trip EXCEPT !.phase = "returned", !.A1 = totalAssets,
                           !.S1 = totalShares]
    ELSE NoTrip

(* The record of a call: a call that reverts leaves the record as it was.  *)
Call(op, caller, args, err) ==
    IF err = "ok"
    THEN [op |-> op, caller |-> caller, args |-> args,
          trip |-> TripAfter(op, caller, args)]
    ELSE last

availableLiquidity == totalAssets - outstandingLoans

utilizationBps ==
    IF totalAssets = 0 THEN 0
    ELSE (outstandingLoans * 10000) \div totalAssets

(* setLoanManager without the write-once check *)
setLoanManagerErrRebinding(caller, lm) ==
    IF caller # OWNER THEN "OwnableUnauthorizedAccount"
    ELSE IF lm = ZERO THEN "ZeroAddress"
    ELSE "ok"

setLoanManagerErr(caller, lm) ==
    IF caller # OWNER THEN "OwnableUnauthorizedAccount"
    ELSE IF loanManagerSet THEN "LoanManagerAlreadySet"
    ELSE IF lm = ZERO THEN "ZeroAddress"
    ELSE "ok"

setLoanManager(caller, lm) ==
    /\ last' = Call("setLoanManager", caller, [NoArgs EXCEPT !.to = lm],
                    setLoanManagerErr(caller, lm))
    /\ IF setLoanManagerErr(caller, lm) = "ok"
       THEN /\ loanManager' = lm
            /\ loanManagerSet' = TRUE
       ELSE UNCHANGED bindVars
    /\ UNCHANGED <<vaultVars, lmVars, feeVars, rrVars, bal, now>>
    /\ UNCHANGED frame

(* deposit that accepts a zero amount *)
depositErrZeroOk(caller, assets, receiver) ==
    IF receiver = ZERO THEN "ZeroAddress"
    ELSE IF ~CanPay(caller, assets) THEN "TransferFailed"
    ELSE "ok"

depositErr(caller, assets, receiver) ==
    IF assets = 0 THEN "ZeroAmount"
    ELSE IF receiver = ZERO THEN "ZeroAddress"
    ELSE IF ~CanPay(caller, assets) THEN "TransferFailed"
    ELSE "ok"

(* deposit that adds the deposited assets, not the minted shares, to       *)
(* totalShares                                                             *)
depositCountingAssets(caller, assets, receiver) ==
    /\ last' = Call("deposit", caller,
                    [NoArgs EXCEPT !.amt = assets, !.to = receiver],
                    depositErr(caller, assets, receiver))
    /\ IF depositErr(caller, assets, receiver) = "ok"
       THEN LET sharesOut == convertToShares(assets) IN
            /\ bal' = Transfer(bal, caller, VAULT, assets)
            /\ shares' = [shares EXCEPT ![receiver] = @ + sharesOut]
            /\ totalShares' = totalShares + assets
            /\ totalAssets' = totalAssets + assets
            /\ UNCHANGED outstandingLoans
       ELSE UNCHANGED <<vaultVars, bal>>
    /\ UNCHANGED <<bindVars, lmVars, feeVars, rrVars, now>>
    /\ UNCHANGED frame

deposit(caller, assets, receiver) ==
    /\ last' = Call("deposit", caller,
                    [NoArgs EXCEPT !.amt = assets, !.to = receiver],
                    depositErr(caller, assets, receiver))
    /\ IF depositErr(caller, assets, receiver) = "ok"
       THEN LET sharesOut == convertToShares(assets) IN
            /\ bal' = Transfer(bal, caller, VAULT, assets)
            /\ shares' = [shares EXCEPT ![receiver] = @ + sharesOut]
            /\ totalShares' = totalShares + sharesOut
            /\ totalAssets' = totalAssets + assets
            /\ UNCHANGED outstandingLoans
       ELSE UNCHANGED <<vaultVars, bal>>
    /\ UNCHANGED <<bindVars, lmVars, feeVars, rrVars, now>>
    /\ UNCHANGED frame

(* withdraw that looks at the shares before the liquidity *)
withdrawErrSharesFirst(caller, assets, receiver, owner) ==
    IF assets = 0 THEN "ZeroAmount"
    ELSE IF receiver = ZERO THEN "ZeroAddress"
    ELSE IF caller # owner THEN "InsufficientShares"
    ELSE IF shares[owner] < convertToShares(assets) THEN "InsufficientShares"
    ELSE IF totalAssets < outstandingLoans THEN "Panic"
    ELSE IF assets > availableLiquidity THEN "InsufficientLiquidity"
    ELSE IF totalShares < convertToShares(assets) THEN "Panic"
    ELSE IF ~CanPay(VAULT, assets) THEN "TransferFailed"
    ELSE "ok"

(* withdraw that lets any caller spend the owner's shares *)
withdrawErrAnyCaller(caller, assets, receiver, owner) ==
    IF assets = 0 THEN "ZeroAmount"
    ELSE IF receiver = ZERO THEN "ZeroAddress"
    ELSE IF totalAssets < outstandingLoans THEN "Panic"
    ELSE IF assets > availableLiquidity THEN "InsufficientLiquidity"
    ELSE IF shares[owner] < convertToShares(assets) THEN "InsufficientShares"
    ELSE IF totalShares < convertToShares(assets) THEN "Panic"
    ELSE IF ~CanPay(VAULT, assets) THEN "TransferFailed"
    ELSE "ok"

withdrawErr(caller, assets, receiver, owner) ==
    IF assets = 0 THEN "ZeroAmount"
    ELSE IF receiver = ZERO THEN "ZeroAddress"
    ELSE IF totalAssets < outstandingLoans THEN "Panic"
    ELSE IF assets > availableLiquidity THEN "InsufficientLiquidity"
    ELSE IF caller # owner THEN "InsufficientShares"
    ELSE IF shares[owner] < convertToShares(assets) THEN "InsufficientShares"
    ELSE IF totalShares < convertToShares(assets) THEN "Panic"
    ELSE IF ~CanPay(VAULT, assets) THEN "TransferFailed"
    ELSE "ok"

withdraw(caller, assets, receiver, owner) ==
    /\ last' = Call("withdraw", caller,
                    [NoArgs EXCEPT !.amt = assets, !.to = receiver,
                                   !.from = owner],
                    withdrawErr(caller, assets, receiver, owner))
    /\ IF withdrawErr(caller, assets, receiver, owner) = "ok"
       THEN LET sharesBurned == convertToShares(assets) IN
            /\ shares' = [shares EXCEPT ![owner] = @ - sharesBurned]
            /\ totalShares' = totalShares - sharesBurned
            /\ totalAssets' = totalAssets - assets
            /\ bal' = Transfer(bal, VAULT, receiver, assets)
            /\ UNCHANGED outstandingLoans
       ELSE UNCHANGED <<vaultVars, bal>>
    /\ UNCHANGED <<bindVars, lmVars, feeVars, rrVars, now>>
    /\ UNCHANGED frame

(* fundLoan without the onlyLoanManager modifier *)
fundLoanErrOpen(caller, borrower, amount) ==
    IF amount = 0 THEN "ZeroAmount"
    ELSE IF totalAssets < outstandingLoans THEN "Panic"
    ELSE IF amount > availableLiquidity THEN "InsufficientLiquidity"
    ELSE IF borrower = ZERO THEN "ZeroAddress"
    ELSE IF ~CanPay(VAULT, amount) THEN "TransferFailed"
    ELSE "ok"

fundLoanErr(caller, borrower, amount) ==
    IF caller # loanManager THEN "NotLoanManager"
    ELSE IF amount = 0 THEN "ZeroAmount"
    ELSE IF totalAssets < outstandingLoans THEN "Panic"
    ELSE IF amount > availableLiquidity THEN "InsufficientLiquidity"
    ELSE IF borrower = ZERO THEN "ZeroAddress"
    ELSE IF ~CanPay(VAULT, amount) THEN "TransferFailed"
    ELSE "ok"

(* fundLoan that also takes the disbursed amount out of totalAssets *)
fundLoanDoDebitingAssets(borrower, amount) ==
    /\ outstandingLoans' = outstandingLoans + amount
    /\ totalAssets' = totalAssets - amount
    /\ bal' = Transfer(bal, VAULT, borrower, amount)
    /\ UNCHANGED <<totalShares, shares>>

(* state change of a fundLoan call that does not revert *)
fundLoanDo(borrower, amount) ==
    /\ outstandingLoans' = outstandingLoans + amount
    /\ bal' = Transfer(bal, VAULT, borrower, amount)
    /\ UNCHANGED <<totalShares, totalAssets, shares>>

receiveRepaymentErr(caller, principalPortion, interestPortion) ==
    IF caller # loanManager THEN "NotLoanManager"
    ELSE IF principalPortion > outstandingLoans THEN "Panic"
    ELSE "ok"

(* receiveRepayment that forgets to reduce outstandingLoans *)
receiveRepaymentDoKeepingLoans(principalPortion, interestPortion) ==
    /\ totalAssets' = totalAssets + interestPortion
    /\ UNCHANGED <<outstandingLoans, totalShares, shares>>

(* vault totals after a receiveRepayment call that does not revert *)
receiveRepaymentDo(principalPortion, interestPortion) ==
    /\ outstandingLoans' = outstandingLoans - principalPortion
    /\ totalAssets' = totalAssets + interestPortion
    /\ UNCHANGED <<totalShares, shares>>

(* fundLoan / receiveRepayment called directly on the vault by an account *)
fundLoan(caller, id, borrower, amount) ==
    /\ last' = Call("fundLoan", caller,
                    [NoArgs EXCEPT !.amt = amount, !.to = borrower, !.id = id],
                    fundLoanErr(caller, borrower, amount))
    /\ IF fundLoanErr(caller, borrower, amount) = "ok"
       THEN fundLoanDo(borrower, amount)
       ELSE UNCHANGED <<vaultVars, bal>>
    /\ UNCHANGED <<bindVars, lmVars, feeVars, rrVars, now>>
    /\ UNCHANGED frame

receiveRepayment(caller, id, principalPortion, interestPortion) ==
    /\ last' = Call("receiveRepayment", caller,
                    [NoArgs EXCEPT !.amt = principalPortion,
                                   !.amt2 = interestPortion, !.id = id],
                    receiveRepaymentErr(caller, principalPortion,
                                        interestPortion))
    /\ IF receiveRepaymentErr(caller, principalPortion, interestPortion) = "ok"
       THEN receiveRepaymentDo(principalPortion, interestPortion)
       ELSE UNCHANGED vaultVars
    /\ UNCHANGED <<bal, bindVars, lmVars, feeVars, rrVars, now>>
    /\ UNCHANGED frame

(* ------------------------------ RiskRules ------------------------------ *)
isVerified(borrower) == borrower \in verified

(* validateNewLoan testing the utilization cap before the borrower cap *)
validateNewLoanCapsSwapped(borrower, principal, duration, aprBps, poolAssets, poolOutstanding) ==
    IF /\ rules.requireVerifiedBorrower
       /\ rules.verifier # ZERO
       /\ ~isVerified(borrower)
    THEN "Borrower not verified"
    ELSE IF principal < rules.minLoanAmount THEN "Loan amount below minimum"
    ELSE IF principal > rules.maxLoanAmount THEN "Loan amount above maximum"
    ELSE IF /\ poolAssets > 0
            /\ ((poolOutstanding + principal) * 10000) \div poolAssets
                   > rules.maxUtilizationBps
    THEN "Exceeds utilization cap"
    ELSE IF /\ poolAssets > 0
            /\ principal > (poolAssets * rules.maxBorrowerBps) \div 10000
    THEN "Exceeds borrower cap"
    ELSE IF duration > rules.maxLoanDuration THEN "Duration exceeds maximum"
    ELSE IF duration = 0 THEN "Duration cannot be zero"
    ELSE IF aprBps < rules.minAprBps THEN "APR below minimum"
    ELSE IF aprBps > rules.maxAprBps THEN "APR above maximum"
    ELSE "ok"

(* validateNewLoan refusing a principal equal to the maximum *)
validateNewLoanMaxExclusive(borrower, principal, duration, aprBps, poolAssets, poolOutstanding) ==
    IF /\ rules.requireVerifiedBorrower
       /\ rules.verifier # ZERO
       /\ ~isVerified(borrower)
    THEN "Borrower not verified"
    ELSE IF principal < rules.minLoanAmount THEN "Loan amount below minimum"
    ELSE IF principal >= rules.maxLoanAmount THEN "Loan amount above maximum"
    ELSE IF /\ poolAssets > 0
            /\ principal > (poolAssets * rules.maxBorrowerBps) \div 10000
    THEN "Exceeds borrower cap"
    ELSE IF /\ poolAssets > 0
            /\ ((poolOutstanding + principal) * 10000) \div poolAssets
                   > rules.maxUtilizationBps
    THEN "Exceeds utilization cap"
    ELSE IF duration > rules.maxLoanDuration THEN "Duration exceeds maximum"
    ELSE IF duration = 0 THEN "Duration cannot be zero"
    ELSE IF aprBps < rules.minAprBps THEN "APR below minimum"
    ELSE IF aprBps > rules.maxAprBps THEN "APR above maximum"
    ELSE "ok"

(* validateNewLoan without the verification check *)
validateNewLoanUnverified(borrower, principal, duration, aprBps, poolAssets, poolOutstanding) ==
    IF principal < rules.minLoanAmount THEN "Loan amount below minimum"
    ELSE IF principal > rules.maxLoanAmount THEN "Loan amount above maximum"
    ELSE IF /\ poolAssets > 0
            /\ principal > (poolAssets * rules.maxBorrowerBps) \div 10000
    THEN "Exceeds borrower cap"
    ELSE IF /\ poolAssets > 0
            /\ ((poolOutstanding + principal) * 10000) \div poolAssets
                   > rules.maxUtilizationBps
    THEN "Exceeds utilization cap"
    ELSE IF duration > rules.maxLoanDuration THEN "Duration exceeds maximum"
    ELSE IF duration = 0 THEN "Duration cannot be zero"
    ELSE IF aprBps < rules.minAprBps THEN "APR below minimum"
    ELSE IF aprBps > rules.maxAprBps THEN "APR above maximum"
    ELSE "ok"

(* validateNewLoan without the utilization check *)
validateNewLoanAnyUtilization(borrower, principal, duration, aprBps, poolAssets, poolOutstanding) ==
    IF /\ rules.requireVerifiedBorrower
       /\ rules.verifier # ZERO
       /\ ~isVerified(borrower)
    THEN "Borrower not verified"
    ELSE IF principal < rules.minLoanAmount THEN "Loan amount below minimum"
    ELSE IF principal > rules.maxLoanAmount THEN "Loan amount above maximum"
    ELSE IF /\ poolAssets > 0
            /\ principal > (poolAssets * rules.maxBorrowerBps) \div 10000
    THEN "Exceeds borrower cap"
    ELSE IF duration > rules.maxLoanDuration THEN "Duration exceeds maximum"
    ELSE IF duration = 0 THEN "Duration cannot be zero"
    ELSE IF aprBps < rules.minAprBps THEN "APR below minimum"
    ELSE IF aprBps > rules.maxAprBps THEN "APR above maximum"
    ELSE "ok"

(* validateNewLoan without the borrower cap *)
validateNewLoanAnyShare(borrower, principal, duration, aprBps, poolAssets, poolOutstanding) ==
    IF /\ rules.requireVerifiedBorrower
       /\ rules.verifier # ZERO
       /\ ~isVerified(borrower)
    THEN "Borrower not verified"
    ELSE IF principal < rules.minLoanAmount THEN "Loan amount below minimum"
    ELSE IF principal > rules.maxLoanAmount THEN "Loan amount above maximum"
    ELSE IF /\ poolAssets > 0
            /\ ((poolOutstanding + principal) * 10000) \div poolAssets
                   > rules.maxUtilizationBps
    THEN "Exceeds utilization cap"
    ELSE IF duration > rules.maxLoanDuration THEN "Duration exceeds maximum"
    ELSE IF duration = 0 THEN "Duration cannot be zero"
    ELSE IF aprBps < rules.minAprBps THEN "APR below minimum"
    ELSE IF aprBps > rules.maxAprBps THEN "APR above maximum"
    ELSE "ok"

validateNewLoan(borrower, principal, duration, aprBps, poolAssets, poolOutstanding) ==
    IF /\ rules.requireVerifiedBorrower
       /\ rules.verifier # ZERO
       /\ ~isVerified(borrower)
    THEN "Borrower not verified"
    ELSE IF principal < rules.minLoanAmount THEN "Loan amount below minimum"
    ELSE IF principal > rules.maxLoanAmount THEN "Loan amount above maximum"
    ELSE IF /\ poolAssets > 0
            /\ principal > (poolAssets * rules.maxBorrowerBps) \div 10000
    THEN "Exceeds borrower cap"
    ELSE IF /\ poolAssets > 0
            /\ ((poolOutstanding + principal) * 10000) \div poolAssets
                   > rules.maxUtilizationBps
    THEN "Exceeds utilization cap"
    ELSE IF duration > rules.maxLoanDuration THEN "Duration exceeds maximum"
    ELSE IF duration = 0 THEN "Duration cannot be zero"
    ELSE IF aprBps < rules.minAprBps THEN "APR below minimum"
    ELSE IF aprBps > rules.maxAprBps THEN "APR above maximum"
    ELSE "ok"

setVerified(caller, account, flag) ==
    /\ last' = Call("setVerified", caller, [NoArgs EXCEPT !.to = account],
                    IF caller = OWNER THEN "ok" ELSE "Not owner")
    /\ IF caller = OWNER
       THEN verified' = IF flag THEN verified \cup {account}
                        ELSE verified \ {account}
       ELSE UNCHANGED verified
    /\ UNCHANGED <<vaultVars, bindVars, lmVars, feeVars, rules, bal, now>>
    /\ UNCHANGED frame

(* updateRules without the APR range check *)
updateRulesErrAnyApr(caller, b, u, lo, hi) ==
    IF caller # OWNER THEN "OwnableUnauthorizedAccount"
    ELSE IF b > 10000 \/ u > 10000 THEN "InvalidConfiguration"
    ELSE "ok"

updateRulesErr(caller, b, u, lo, hi) ==
    IF caller # OWNER THEN "OwnableUnauthorizedAccount"
    ELSE IF b > 10000 \/ u > 10000 THEN "InvalidConfiguration"
    ELSE IF lo > hi THEN "InvalidConfiguration"
    ELSE "ok"

updateRules(caller, b, u, d, lo, hi) ==
    /\ last' = Call("updateRules", caller,
                    [NoArgs EXCEPT !.amt = lo, !.amt2 = hi],
                    updateRulesErr(caller, b, u, lo, hi))
    /\ IF updateRulesErr(caller, b, u, lo, hi) = "ok"
       THEN rules' = [rules EXCEPT !.maxBorrowerBps = b,
                                   !.maxUtilizationBps = u,
                                   !.maxLoanDuration = d,
                                   !.minAprBps = lo,
                                   !.maxAprBps = hi]
       ELSE UNCHANGED rules
    /\ UNCHANGED <<vaultVars, bindVars, lmVars, feeVars, verified, bal, now>>
    /\ UNCHANGED frame

updateLoanAmountBoundsErr(caller, lo, hi) ==
    IF caller # OWNER THEN "OwnableUnauthorizedAccount"
    ELSE IF lo > hi THEN "InvalidConfiguration"
    ELSE "ok"

updateLoanAmountBounds(caller, lo, hi) ==
    /\ last' = Call("updateLoanAmountBounds", caller,
                    [NoArgs EXCEPT !.amt = lo, !.amt2 = hi],
                    updateLoanAmountBoundsErr(caller, lo, hi))
    /\ IF updateLoanAmountBoundsErr(caller, lo, hi) = "ok"
       THEN rules' = [rules EXCEPT !.minLoanAmount = lo,
                                   !.maxLoanAmount = hi]
       ELSE UNCHANGED rules
    /\ UNCHANGED <<vaultVars, bindVars, lmVars, feeVars, verified, bal, now>>
    /\ UNCHANGED frame

setVerifier(caller, v) ==
    /\ last' = Call("setVerifier", caller, [NoArgs EXCEPT !.to = v],
                    IF caller = OWNER THEN "ok"
                    ELSE "OwnableUnauthorizedAccount")
    /\ IF caller = OWNER
       THEN rules' = [rules EXCEPT !.verifier = v]
       ELSE UNCHANGED rules
    /\ UNCHANGED <<vaultVars, bindVars, lmVars, feeVars, verified, bal, now>>
    /\ UNCHANGED frame

setRequireVerified(caller, required) ==
    /\ last' = Call("setRequireVerified", caller, NoArgs,
                    IF caller = OWNER THEN "ok"
                    ELSE "OwnableUnauthorizedAccount")
    /\ IF caller = OWNER
       THEN rules' = [rules EXCEPT !.requireVerifiedBorrower = required]
       ELSE UNCHANGED rules
    /\ UNCHANGED <<vaultVars, bindVars, lmVars, feeVars, verified, bal, now>>
    /\ UNCHANGED frame

(* ----------------------------- LoanManager ----------------------------- *)
(* interest charged on the whole principal, repaid or not *)
accruedInterestOnPrincipal(id) ==
    IF ~loans[id].disbursed \/ ~loans[id].active THEN 0
    ELSE IF loans[id].principal - loans[id].principalRepaid = 0 THEN 0
    ELSE (loans[id].principal
              * loans[id].aprBps * (now - loans[id].lastPaymentTime))
         \div (BPS_DENOMINATOR * SECONDS_PER_YEAR)

accruedInterest(id) ==
    IF ~loans[id].disbursed \/ ~loans[id].active THEN 0
    ELSE IF loans[id].principal - loans[id].principalRepaid = 0 THEN 0
    ELSE ((loans[id].principal - loans[id].principalRepaid)
              * loans[id].aprBps * (now - loans[id].lastPaymentTime))
         \div (BPS_DENOMINATOR * SECONDS_PER_YEAR)

totalOwed(id) ==
    (loans[id].principal - loans[id].principalRepaid) + accruedInterest(id)

requestLoanErr(caller, principal, duration, aprBps) ==
    IF principal = 0 THEN "ZeroAmount"
    ELSE validateNewLoan(caller, principal, duration, aprBps,
                         totalAssets, outstandingLoans)

(* requestLoan storing the loan under the count before the increment *)
requestLoanPostIncrement(caller, principal, duration, aprBps, metadataHash) ==
    /\ loanCount < MaxLoans
    /\ last' = Call("requestLoan", caller,
                    [NoArgs EXCEPT !.amt = principal, !.amt2 = aprBps,
                                   !.id = duration],
                    requestLoanErr(caller, principal, duration, aprBps))
    /\ IF requestLoanErr(caller, principal, duration, aprBps) = "ok"
       THEN /\ loanCount' = loanCount + 1
            /\ loans' = [loans EXCEPT ![loanCount] =
                   [borrower |-> caller, principal |-> principal,
                    principalRepaid |-> 0, interestPaid |-> 0,
                    aprBps |-> aprBps, startTime |-> 0,
                    duration |-> duration, lastPaymentTime |-> 0,
                    metadataHash |-> metadataHash, active |-> TRUE,
                    disbursed |-> FALSE]]
       ELSE UNCHANGED <<loanCount, loans>>
    /\ UNCHANGED <<vaultVars, bindVars, totalAgentFees, feeVars, rrVars,
                   bal, now>>
    /\ UNCHANGED frame

requestLoan(caller, principal, duration, aprBps, metadataHash) ==
    /\ loanCount < MaxLoans
    /\ last' = Call("requestLoan", caller,
                    [NoArgs EXCEPT !.amt = principal, !.amt2 = aprBps,
                                   !.id = duration],
                    requestLoanErr(caller, principal, duration, aprBps))
    /\ IF requestLoanErr(caller, principal, duration, aprBps) = "ok"
       THEN /\ loanCount' = loanCount + 1
            /\ loans' = [loans EXCEPT ![loanCount + 1] =
                   [borrower |-> caller, principal |-> principal,
                    principalRepaid |-> 0, interestPaid |-> 0,
                    aprBps |-> aprBps, startTime |-> 0,
                    duration |-> duration, lastPaymentTime |-> 0,
                    metadataHash |-> metadataHash, active |-> TRUE,
                    disbursed |-> FALSE]]
       ELSE UNCHANGED <<loanCount, loans>>
    /\ UNCHANGED <<vaultVars, bindVars, totalAgentFees, feeVars, rrVars,
                   bal, now>>
    /\ UNCHANGED frame

(* approveAndDisburse without the check of the disbursed flag *)
approveAndDisburseErrAgain(caller, id) ==
    IF caller # OWNER THEN "OwnableUnauthorizedAccount"
    ELSE IF loans[id].borrower = ZERO THEN "LoanNotFound"
    ELSE IF ~loans[id].active THEN "LoanNotActive"
    ELSE IF validateNewLoan(loans[id].borrower, loans[id].principal,
                            loans[id].duration, loans[id].aprBps,
                            totalAssets, outstandingLoans) # "ok"
    THEN validateNewLoan(loans[id].borrower, loans[id].principal,
                         loans[id].duration, loans[id].aprBps,
                         totalAssets, outstandingLoans)
    ELSE fundLoanErr(LM, loans[id].borrower, loans[id].principal)

(* approveAndDisburse open to every caller *)
approveAndDisburseErrAnyone(caller, id) ==
    IF loans[id].borrower = ZERO THEN "LoanNotFound"
    ELSE IF ~loans[id].active THEN "LoanNotActive"
    ELSE IF loans[id].disbursed THEN "LoanAlreadyDisbursed"
    ELSE IF validateNewLoan(loans[id].borrower, loans[id].principal,
                            loans[id].duration, loans[id].aprBps,
                            totalAssets, outstandingLoans) # "ok"
    THEN validateNewLoan(loans[id].borrower, loans[id].principal,
                         loans[id].duration, loans[id].aprBps,
                         totalAssets, outstandingLoans)
    ELSE fundLoanErr(LM, loans[id].borrower, loans[id].principal)

(* approveAndDisburse without the second validation *)
approveAndDisburseErrUnvalidated(caller, id) ==
    IF caller # OWNER THEN "OwnableUnauthorizedAccount"
    ELSE IF loans[id].borrower = ZERO THEN "LoanNotFound"
    ELSE IF ~loans[id].active THEN "LoanNotActive"
    ELSE IF loans[id].disbursed THEN "LoanAlreadyDisbursed"
    ELSE fundLoanErr(LM, loans[id].borrower, loans[id].principal)

approveAndDisburseErr(caller, id) ==
    IF caller # OWNER THEN "OwnableUnauthorizedAccount"
    ELSE IF loans[id].borrower = ZERO THEN "LoanNotFound"
    ELSE IF ~loans[id].active THEN "LoanNotActive"
    ELSE IF loans[id].disbursed THEN "LoanAlreadyDisbursed"
    ELSE IF validateNewLoan(loans[id].borrower, loans[id].principal,
                            loans[id].duration, loans[id].aprBps,
                            totalAssets, outstandingLoans) # "ok"
    THEN validateNewLoan(loans[id].borrower, loans[id].principal,
                         loans[id].duration, loans[id].aprBps,
                         totalAssets, outstandingLoans)
    ELSE fundLoanErr(LM, loans[id].borrower, loans[id].principal)

(* approveAndDisburse keeping the loan marked when fundLoan rejects *)
approveAndDisburseNoRollback(caller, id) ==
    /\ last' = Call("approveAndDisburse", caller, [NoArgs EXCEPT !.id = id],
                    approveAndDisburseErr(caller, id))
    /\ IF approveAndDisburseErr(caller, id) = "ok"
       THEN /\ loans' = [loans EXCEPT ![id].disbursed = TRUE,
                                      ![id].startTime = now,
                                      ![id].lastPaymentTime = now]
            /\ fundLoanDo(loans[id].borrower, loans[id].principal)
       ELSE IF approveAndDisburseErr(caller, id)
                  \in {"NotLoanManager", "InsufficientLiquidity",
                       "TransferFailed"}
       THEN /\ loans' = [loans EXCEPT ![id].disbursed = TRUE,
                                      ![id].startTime = now,
                                      ![id].lastPaymentTime = now]
            /\ UNCHANGED <<vaultVars, bal>>
       ELSE UNCHANGED <<loans, vaultVars, bal>>
    /\ UNCHANGED <<loanCount, totalAgentFees, bindVars, feeVars, rrVars, now>>
    /\ UNCHANGED frame

(* approveAndDisburse leaving lastPaymentTime at zero *)
approveAndDisburseNoPaymentTime(caller, id) ==
    /\ last' = Call("approveAndDisburse", caller, [NoArgs EXCEPT !.id = id],
                    approveAndDisburseErr(caller, id))
    /\ IF approveAndDisburseErr(caller, id) = "ok"
       THEN /\ loans' = [loans EXCEPT ![id].disbursed = TRUE,
                                      ![id].startTime = now]
            /\ fundLoanDo(loans[id].borrower, loans[id].principal)
       ELSE UNCHANGED <<loans, vaultVars, bal>>
    /\ UNCHANGED <<loanCount, totalAgentFees, bindVars, feeVars, rrVars, now>>
    /\ UNCHANGED frame

approveAndDisburse(caller, id) ==
    /\ last' = Call("approveAndDisburse", caller, [NoArgs EXCEPT !.id = id],
                    approveAndDisburseErr(caller, id))
    /\ IF approveAndDisburseErr(caller, id) = "ok"
       THEN /\ loans' = [loans EXCEPT ![id].disbursed = TRUE,
                                      ![id].startTime = now,
                                      ![id].lastPaymentTime = now]
            /\ fundLoanDo(loans[id].borrower, loans[id].principal)
       ELSE UNCHANGED <<loans, vaultVars, bal>>
    /\ UNCHANGED <<loanCount, totalAgentFees, bindVars, feeVars, rrVars, now>>
    /\ UNCHANGED frame

(* the waterfall paying principal before interest *)
repaySplitPrincipalFirst(id, amount) ==
    LET interestDue        == accruedInterest(id)
        remainingPrincipal == loans[id].principal - loans[id].principalRepaid
        principalPortion   == Min(amount, remainingPrincipal)
        interestPortion    == Min(amount - principalPortion, interestDue)
        agentFee           == IF interestPortion > 0 /\ agentFeeBps > 0
                              THEN (interestPortion * agentFeeBps)
                                       \div BPS_DENOMINATOR
                              ELSE 0
    IN [interestPortion  |-> interestPortion,
        principalPortion |-> principalPortion,
        agentFee         |-> agentFee,
        actualPayment    |-> interestPortion + principalPortion]

(* the waterfall without the cap on the principal portion *)
repaySplitUncapped(id, amount) ==
    LET interestDue        == accruedInterest(id)
        interestPortion    == IF amount <= interestDue THEN amount
                              ELSE interestDue
        principalPortion   == IF amount <= interestDue THEN 0
                              ELSE amount - interestDue
        agentFee           == IF interestPortion > 0 /\ agentFeeBps > 0
                              THEN (interestPortion * agentFeeBps)
                                       \div BPS_DENOMINATOR
                              ELSE 0
    IN [interestPortion  |-> interestPortion,
        principalPortion |-> principalPortion,
        agentFee         |-> agentFee,
        actualPayment    |-> interestPortion + principalPortion]

(* interest-first waterfall of repay and the fee on the interest part *)
repaySplit(id, amount) ==
    LET interestDue        == accruedInterest(id)
        remainingPrincipal == loans[id].principal - loans[id].principalRepaid
        interestPortion    == IF amount <= interestDue THEN amount
                              ELSE interestDue
        principalPortion   == IF amount <= interestDue THEN 0
                              ELSE Min(amount - interestDue, remainingPrincipal)
        agentFee           == IF interestPortion > 0 /\ agentFeeBps > 0
                              THEN (interestPortion * agentFeeBps)
                                       \div BPS_DENOMINATOR
                              ELSE 0
    IN [interestPortion  |-> interestPortion,
        principalPortion |-> principalPortion,
        agentFee         |-> agentFee,
        actualPayment    |-> interestPortion + principalPortion]

(* the vault credited with the interest before the fee *)
interestToVaultGross(s) == s.interestPortion

interestToVault(s) == s.interestPortion - s.agentFee

(* repay without the disbursed check *)
repayErrUndisbursed(caller, id, amount) ==
    IF amount = 0 THEN "ZeroAmount"
    ELSE IF loans[id].borrower = ZERO THEN "LoanNotFound"
    ELSE IF ~loans[id].active THEN "LoanNotActive"
    ELSE IF loans[id].principalRepaid > loans[id].principal THEN "Panic"
    ELSE IF ~CanPay(caller, repaySplit(id, amount).actualPayment)
    THEN "TransferFailed"
    ELSE IF repaySplit(id, amount).agentFee
                > repaySplit(id, amount).interestPortion
    THEN "Panic"
    ELSE receiveRepaymentErr(LM, repaySplit(id, amount).principalPortion,
                             interestToVault(repaySplit(id, amount)))

(* repay without the active check *)
repayErrClosed(caller, id, amount) ==
    IF amount = 0 THEN "ZeroAmount"
    ELSE IF loans[id].borrower = ZERO THEN "LoanNotFound"
    ELSE IF ~loans[id].disbursed THEN "LoanNotDisbursed"
    ELSE IF loans[id].principalRepaid > loans[id].principal THEN "Panic"
    ELSE IF ~CanPay(caller, repaySplit(id, amount).actualPayment)
    THEN "TransferFailed"
    ELSE IF repaySplit(id, amount).agentFee
                > repaySplit(id, amount).interestPortion
    THEN "Panic"
    ELSE receiveRepaymentErr(LM, repaySplit(id, amount).principalPortion,
                             interestToVault(repaySplit(id, amount)))

repayErr(caller, id, amount) ==
    IF amount = 0 THEN "ZeroAmount"
    ELSE IF loans[id].borrower = ZERO THEN "LoanNotFound"
    ELSE IF ~loans[id].active THEN "LoanNotActive"
    ELSE IF ~loans[id].disbursed THEN "LoanNotDisbursed"
    ELSE IF loans[id].principalRepaid > loans[id].principal THEN "Panic"
    ELSE IF ~CanPay(caller, repaySplit(id, amount).actualPayment)
    THEN "TransferFailed"
    ELSE IF repaySplit(id, amount).agentFee
                > repaySplit(id, amount).interestPortion
    THEN "Panic"
    ELSE receiveRepaymentErr(LM, repaySplit(id, amount).principalPortion,
                             interestToVault(repaySplit(id, amount)))

repay(caller, id, amount) ==
    /\ last' = Call("repay", caller,
                    [NoArgs EXCEPT !.amt = amount, !.id = id],
                    repayErr(caller, id, amount))
    /\ IF repayErr(caller, id, amount) = "ok"
       THEN LET s       == repaySplit(id, amount)
                pulled  == Transfer(bal, caller, LM, s.actualPayment)
                feePaid == IF s.agentFee > 0
                           THEN Transfer(pulled, LM, agentTreasury, s.agentFee)
                           ELSE pulled
            IN
            /\ loans' = [loans EXCEPT
                   ![id].principalRepaid = @ + s.principalPortion,
                   ![id].interestPaid = @ + s.interestPortion,
                   ![id].lastPaymentTime = now]
            /\ totalAgentFees' = totalAgentFees + s.agentFee
            /\ bal' = Transfer(feePaid, LM, VAULT,
                               s.actualPayment - s.agentFee)
            /\ receiveRepaymentDo(s.principalPortion, interestToVault(s))
       ELSE UNCHANGED <<loans, totalAgentFees, vaultVars, bal>>
    /\ UNCHANGED <<loanCount, bindVars, feeVars, rrVars, now>>
    /\ UNCHANGED frame

(* closeLoan refusing a loan that is exactly repaid *)
closeLoanErrStrict(caller, id) ==
    IF loans[id].borrower = ZERO THEN "LoanNotFound"
    ELSE IF ~loans[id].active THEN "LoanNotActive"
    ELSE IF caller # loans[id].borrower /\ caller # OWNER THEN "NotBorrower"
    ELSE IF loans[id].principalRepaid <= loans[id].principal
    THEN "LoanNotFullyRepaid"
    ELSE "ok"

(* closeLoan open to every caller *)
closeLoanErrAnyone(caller, id) ==
    IF loans[id].borrower = ZERO THEN "LoanNotFound"
    ELSE IF ~loans[id].active THEN "LoanNotActive"
    ELSE IF loans[id].principalRepaid < loans[id].principal
    THEN "LoanNotFullyRepaid"
    ELSE "ok"

(* closeLoan without the check that the principal is repaid *)
closeLoanErrUnpaid(caller, id) ==
    IF loans[id].borrower = ZERO THEN "LoanNotFound"
    ELSE IF ~loans[id].active THEN "LoanNotActive"
    ELSE IF caller # loans[id].borrower /\ caller # OWNER THEN "NotBorrower"
    ELSE "ok"

closeLoanErr(caller, id) ==
    IF loans[id].borrower = ZERO THEN "LoanNotFound"
    ELSE IF ~loans[id].active THEN "LoanNotActive"
    ELSE IF caller # loans[id].borrower /\ caller # OWNER THEN "NotBorrower"
    ELSE IF loans[id].principalRepaid < loans[id].principal
    THEN "LoanNotFullyRepaid"
    ELSE "ok"

(* closeLoan deleting the record of the loan *)
closeLoanDeleting(caller, id) ==
    /\ last' = Call("closeLoan", caller, [NoArgs EXCEPT !.id = id],
                    closeLoanErr(caller, id))
    /\ IF closeLoanErr(caller, id) = "ok"
       THEN loans' = [loans EXCEPT ![id] = EmptyLoan]
       ELSE UNCHANGED loans
    /\ UNCHANGED <<loanCount, totalAgentFees, vaultVars, bindVars, feeVars,
                   rrVars, bal, now>>
    /\ UNCHANGED frame

closeLoan(caller, id) ==
    /\ last' = Call("closeLoan", caller, [NoArgs EXCEPT !.id = id],
                    closeLoanErr(caller, id))
    /\ IF closeLoanErr(caller, id) = "ok"
       THEN loans' = [loans EXCEPT ![id].active = FALSE]
       ELSE UNCHANGED loans
    /\ UNCHANGED <<loanCount, totalAgentFees, vaultVars, bindVars, feeVars,
                   rrVars, bal, now>>
    /\ UNCHANGED frame

(* ------------------------------ block time ----------------------------- *)
StartTime == SECONDS_PER_YEAR
EndTime   == StartTime + MaxYears * SECONDS_PER_YEAR

Tick ==
    /\ now < EndTime
    /\ now' = now + SECONDS_PER_YEAR
    /\ last' = Call("tick", ZERO, NoArgs, "ok")
    /\ UNCHANGED <<vaultVars, bindVars, lmVars, feeVars, rrVars, bal>>
    /\ UNCHANGED frame

(* block time advancing by a part of a year *)
Elapse ==
    /\ now + SECONDS_PER_YEAR \div StepsPerYear <= EndTime
    /\ now' = now + SECONDS_PER_YEAR \div StepsPerYear
    /\ last' = Call("tick", ZERO, NoArgs, "ok")
    /\ UNCHANGED <<vaultVars, bindVars, lmVars, feeVars, rrVars, bal>>
    /\ UNCHANGED frame

(* ------------------------------ re-entry ------------------------------- *)
(* The asset is the token given to the constructors; a token with transfer *)
(* hooks calls the payer back from inside safeTransferFrom, before it      *)
(* moves the balances, and the payer may call any external function from   *)
(* there.  frame is the call so entered: the position of the outer repay   *)
(* (at its safeTransferFrom), its arguments and local variables, the       *)
(* contracts whose ReentrancyGuard status is ENTERED, and the state to     *)
(* which the transaction returns if the outer call reverts.                *)
NoSplit ==
    [interestPortion |-> 0, principalPortion |-> 0, agentFee |-> 0,
     actualPayment |-> 0]

NoSaved ==
    [bal |-> <<>>, shares |-> <<>>, totalShares |-> 0, totalAssets |-> 0,
     loans |-> <<>>, last |-> <<>>]

Idle ==
    [pos |-> "idle", caller |-> ZERO, id |-> 0, amount |-> 0,
     split |-> NoSplit, entered |-> {}, saved |-> NoSaved]

Snapshot ==
    [bal |-> bal, shares |-> shares, totalShares |-> totalShares,
     totalAssets |-> totalAssets, loans |-> loans, last |-> last]

(* the modifier: a call into a contract whose guard is entered reverts *)
nonReentrant(contract, call) ==
    IF contract \in frame.entered THEN UNCHANGED vars ELSE call

(* the checks of repay that come before the payment is pulled *)
repayChecksErr(id, amount) ==
    IF amount = 0 THEN "ZeroAmount"
    ELSE IF loans[id].borrower = ZERO THEN "LoanNotFound"
    ELSE IF ~loans[id].active THEN "LoanNotActive"
    ELSE IF ~loans[id].disbursed THEN "LoanNotDisbursed"
    ELSE IF loans[id].principalRepaid > loans[id].principal THEN "Panic"
    ELSE "ok"

(* repay up to its safeTransferFrom: the guard of LoanManager is entered,  *)
(* the split is computed, and the token calls the payer                    *)
repayEnter(caller, id, amount) ==
    /\ frame.pos = "idle"
    /\ IF repayChecksErr(id, amount) = "ok"
       THEN frame' = [pos |-> "repay", caller |-> caller, id |-> id,
                      amount |-> amount, split |-> repaySplit(id, amount),
                      entered |-> {LM}, saved |-> Snapshot]
       ELSE UNCHANGED frame
    /\ UNCHANGED <<vaultVars, bindVars, lmVars, feeVars, rrVars, bal, now,
                   last>>

(* what the rest of repay reverts with, after the payer's callback *)
repayExitErr ==
    IF ~CanPay(frame.caller, frame.split.actualPayment) THEN "TransferFailed"
    ELSE IF frame.split.agentFee > frame.split.interestPortion THEN "Panic"
    ELSE receiveRepaymentErr(LM, frame.split.principalPortion,
                             interestToVault(frame.split))

(* repay from its safeTransferFrom to its end, with the split computed     *)
(* before the callback; a revert undoes the callback's calls as well       *)
repayExit ==
    /\ frame.pos = "repay"
    /\ frame' = Idle
    /\ IF repayExitErr = "ok"
       THEN LET s       == frame.split
                id      == frame.id
                pulled  == Transfer(bal, frame.caller, LM, s.actualPayment)
                feePaid == IF s.agentFee > 0
                           THEN Transfer(pulled, LM, agentTreasury, s.agentFee)
                           ELSE pulled
            IN
            /\ last' = Call("repay", frame.caller,
                            [NoArgs EXCEPT !.amt = frame.amount, !.id = id],
                            "ok")
            /\ loans' = [loans EXCEPT
                   ![id].principalRepaid = @ + s.principalPortion,
                   ![id].interestPaid = @ + s.interestPortion,
                   ![id].lastPaymentTime = now]
            /\ totalAgentFees' = totalAgentFees + s.agentFee
            /\ bal' = Transfer(feePaid, LM, VAULT,
                               s.actualPayment - s.agentFee)
            /\ receiveRepaymentDo(s.principalPortion, interestToVault(s))
       ELSE /\ last' = frame.saved.last
            /\ loans' = frame.saved.loans
            /\ bal' = frame.saved.bal
            /\ shares' = frame.saved.shares
            /\ totalShares' = frame.saved.totalShares
            /\ totalAssets' = frame.saved.totalAssets
            /\ UNCHANGED <<totalAgentFees, outstandingLoans>>
    /\ UNCHANGED <<loanCount, bindVars, feeVars, rrVars, now>>

(* --------------------------- initial state ----------------------------- *)
(* The state after the four constructors.  RiskRules takes its parameters *)
(* unchecked; two parameter sets are used: one that lets a loan use the   *)
(* whole pool, one with a 50% borrower cap and an 80% utilization cap.     *)
RulesOpen ==
    [maxBorrowerBps |-> 10000, maxUtilizationBps |-> 10000,
     maxLoanDuration |-> SECONDS_PER_YEAR,
     minAprBps |-> 500, maxAprBps |-> 20000,
     minLoanAmount |-> 1, maxLoanAmount |-> MaxAmount,
     requireVerifiedBorrower |-> TRUE, verifier |-> VERIFIER]

RulesCapped ==
    [RulesOpen EXCEPT !.maxBorrowerBps = 5000, !.maxUtilizationBps = 8000]

Constructed(r) ==
    /\ totalShares = 0
    /\ totalAssets = 0
    /\ outstandingLoans = 0
    /\ shares = [a \in Users |-> 0]
    /\ loanManager = ZERO
    /\ loanManagerSet = FALSE
    /\ loanCount = 0
    /\ loans = [i \in LoanIds |-> EmptyLoan]
    /\ agentFeeBps = 5000
    /\ agentTreasury = TREASURY
    /\ totalAgentFees = 0
    /\ rules = r
    /\ verified = {}
    /\ bal = [a \in Holders |-> IF a \in Users THEN InitBalance ELSE 0]
    /\ now = StartTime
    /\ last = [op |-> "init", caller |-> ZERO, args |-> NoArgs,
               trip |-> NoTrip]
    /\ frame = Idle

Init == Constructed(RulesOpen)

InitLoans == Constructed(RulesCapped)

(* ------------------------------ inputs --------------------------------- *)
Managers   == {ZERO, LM, OWNER}
Receivers  == Users \cup {ZERO}
Borrowers  == {"alice"}
Durations  == {SECONDS_PER_YEAR}
Aprs       == {20000}
Admins     == {OWNER, "bob"}
Closers    == {OWNER, "alice"}
AccrualAprs == {5000, 20000}

(* The pool: two depositors, deposits on behalf, withdrawals, and one loan *)
(* that earns the pool interest; the vault is bound to LoanManager as in   *)
(* scripts/deploy.ts.                                                      *)
Next ==
    \/ \E c \in Admins, m \in {ZERO, LM} : setLoanManager(c, m)
    \/ \E c \in Users, a \in Amounts, r \in Receivers : deposit(c, a, r)
    \/ \E c \in Users, a \in Amounts, r \in Receivers, o \in Users :
           withdraw(c, a, r, o)
    \/ \E c \in Admins : fundLoan(c, 1, "bob", 1)
    \/ \E c \in Admins : receiveRepayment(c, 1, 1, 1)
    \/ \E c \in Admins, u \in Borrowers, f \in BOOLEAN : setVerified(c, u, f)
    \/ \E c \in Users, p \in Principals, d \in Durations, r \in Aprs :
           /\ loanCount < MaxPoolLoans
           /\ requestLoan(c, p, d, r, 1)
    \/ \E c \in Admins, i \in 1..MaxLoans : approveAndDisburse(c, i)
    \/ \E c \in Users, i \in 1..MaxLoans, a \in RepayAmounts : repay(c, i, a)
    \/ \E c \in Closers, i \in 1..MaxLoans : closeLoan(c, i)
    \/ Tick

Spec == Init /\ [][Next]_vars

(* The loan ledger: one depositor, up to MaxLoans loans of one borrower,   *)
(* and a vault owner who may bind any address, its own included, as the    *)
(* loan manager and then call fundLoan and receiveRepayment itself.  The   *)
(* pool is capped at MaxPool, which such a manager could otherwise grow    *)
(* without end.                                                            *)
NextLoans ==
    \/ \E c \in Admins, m \in Managers : setLoanManager(c, m)
    \/ \E a \in Amounts :
           /\ totalAssets + a <= MaxPool
           /\ deposit("bob", a, "bob")
    \/ \E a \in Amounts : withdraw("bob", a, "bob", "bob")
    \/ \E c \in Admins, a \in Amounts : fundLoan(c, 1, "bob", a)
    \/ \E c \in Admins, p \in Principals, q \in Principals :
           /\ totalAssets + q <= MaxPool
           /\ receiveRepayment(c, 1, p, q)
    \/ \E c \in Admins, u \in Borrowers, f \in BOOLEAN : setVerified(c, u, f)
    \/ \E c \in Users, p \in Amounts, d \in Durations, r \in Aprs :
           requestLoan(c, p, d, r, 1)
    \/ \E c \in Admins, i \in LoanIds : approveAndDisburse(c, i)
    \/ \E i \in LoanIds, a \in RepayAmounts : repay("alice", i, a)
    \/ \E c \in Closers, i \in LoanIds : closeLoan(c, i)
    \/ Tick

SpecLoans == InitLoans /\ [][NextLoans]_vars

(* Risk configuration: the rules are constructed unchecked and then        *)
(* changed by the owner's setters, while one depositor moves the pool and  *)
(* one borrower, verified or not, requests loans that the owner approves.  *)
RulesUnchecked ==
    [maxBorrowerBps |-> 10001, maxUtilizationBps |-> 10001,
     maxLoanDuration |-> SECONDS_PER_YEAR,
     minAprBps |-> 20000, maxAprBps |-> 500,
     minLoanAmount |-> MaxAmount, maxLoanAmount |-> 1,
     requireVerifiedBorrower |-> FALSE, verifier |-> ZERO]

ConstructorRules == {RulesOpen, RulesUnchecked}

InitRules == \E r \in ConstructorRules : Constructed(r)

(* arguments of the setters: caps, APR ranges and amount bounds, each set  *)
(* holding accepted and refused combinations                               *)
CapUpdates   == {<<5000, 8000>>, <<10000, 10000>>, <<10001, 10000>>, <<10000, 10001>>}
AprUpdates   == {<<500, 20000>>, <<20000, 20000>>, <<20000, 500>>}
BoundUpdates == {<<1, MaxAmount>>, <<1, 1>>, <<0, 0>>, <<MaxAmount, 1>>}
AprChoices   == {500, 20000}
Verifiers    == {ZERO, VERIFIER}

NextRules ==
    \/ \E c \in Admins : setLoanManager(c, LM)
    \/ \E a \in Amounts :
           /\ totalAssets + a <= MaxAmount
           /\ deposit("bob", a, "bob")
    \/ \E a \in Amounts : withdraw("bob", a, "bob", "bob")
    \/ \E c \in Admins, f \in BOOLEAN : setVerified(c, "alice", f)
    \/ \E p \in Amounts, r \in AprChoices :
           /\ loanCount < MaxPoolLoans
           /\ requestLoan("alice", p, SECONDS_PER_YEAR, r, 1)
    \/ \E c \in Admins, i \in 1..MaxPoolLoans : approveAndDisburse(c, i)
    \/ \E c \in Admins, x \in CapUpdates, y \in AprUpdates :
           updateRules(c, x[1], x[2], SECONDS_PER_YEAR, y[1], y[2])
    \/ \E c \in Admins, x \in BoundUpdates :
           updateLoanAmountBounds(c, x[1], x[2])
    \/ \E c \in Admins, v \in Verifiers : setVerifier(c, v)
    \/ \E c \in Admins, f \in BOOLEAN : setRequireVerified(c, f)

SpecRules == InitRules /\ [][NextRules]_vars

(* Interest: one loan of 1..MaxAmount at 50% or 200% a year, block time   *)
(* advancing by a fifth of a year, and repayments of any amount at any of  *)
(* these times.                                                            *)
NextAccrual ==
    \/ \E c \in Admins : setLoanManager(c, LM)
    \/ \E a \in Amounts :
           /\ totalAssets + a <= MaxPool
           /\ deposit("bob", a, "bob")
    \/ \E c \in Admins : setVerified(c, "alice", TRUE)
    \/ \E p \in Amounts, r \in AccrualAprs :
           /\ loanCount < MaxPoolLoans
           /\ requestLoan("alice", p, SECONDS_PER_YEAR, r, 1)
    \/ \E c \in Admins, i \in 1..MaxPoolLoans : approveAndDisburse(c, i)
    \/ \E i \in 1..MaxPoolLoans, a \in RepayAmounts : repay("alice", i, a)
    \/ \E c \in Closers, i \in 1..MaxPoolLoans : closeLoan(c, i)
    \/ Elapse

SpecAccrual == Init /\ [][NextAccrual]_vars

(* Re-entry: the pool and one loan of 1 at 200% a year, and a repay of    *)
(* the borrower during which the token calls the payer, who calls        *)
(* deposit, withdraw, closeLoan, repay or requestLoan before the outer    *)
(* repay goes on.                                                          *)
NextReentry ==
    \/ /\ frame.pos = "idle"
       /\ \E c \in Admins : setLoanManager(c, LM)
    \/ /\ frame.pos = "idle"
       /\ \E a \in Amounts :
              /\ totalAssets + a <= MaxPool
              /\ deposit("bob", a, "bob")
    \/ /\ frame.pos = "idle"
       /\ \E c \in Admins : setVerified(c, "alice", TRUE)
    \/ /\ frame.pos = "idle"
       /\ \E p \in Principals, r \in Aprs :
              /\ loanCount < MaxPoolLoans
              /\ requestLoan("alice", p, SECONDS_PER_YEAR, r, 1)
    \/ /\ frame.pos = "idle"
       /\ \E c \in Admins, i \in 1..MaxPoolLoans : approveAndDisburse(c, i)
    \/ /\ frame.pos = "idle"
       /\ Tick
    \/ \E i \in 1..MaxPoolLoans, a \in RepayAmounts : repayEnter("alice", i, a)
    \/ /\ frame.pos = "repay"
       /\ \E a \in Amounts :
              /\ totalAssets + a <= MaxPool
              /\ nonReentrant(VAULT, deposit(frame.caller, a, frame.caller))
    \/ /\ frame.pos = "repay"
       /\ \E a \in Amounts :
              nonReentrant(VAULT, withdraw(frame.caller, a, frame.caller,
                                           frame.caller))
    \/ /\ frame.pos = "repay"
       /\ \E i \in 1..MaxPoolLoans : closeLoan(frame.caller, i)
    \/ /\ frame.pos = "repay"
       /\ \E i \in 1..MaxPoolLoans, a \in RepayAmounts :
              nonReentrant(LM, repay(frame.caller, i, a))
    \/ /\ frame.pos = "repay"
       /\ \E p \in Principals, r \in Aprs :
              nonReentrant(LM, requestLoan(frame.caller, p, SECONDS_PER_YEAR,
                                           r, 1))
    \/ repayExit

SpecReentry == Init /\ [][NextReentry]_vars

(* ============================== properties ============================= *)
(* A step that changes the state is a call that did not revert, and last'  *)
(* is the record of that call.                                             *)
Sum(f) == SumOver(f, DOMAIN f)

Owed == [i \in LoanIds |->
            IF loans[i].disbursed
            THEN loans[i].principal - loans[i].principalRepaid
            ELSE 0]

Legit == loanManager \in {ZERO, LM}

(* C1: in every state reached by deposits, withdrawals, disbursements and  *)
(* repayments, totalAssets >= outstandingLoans, so availableLiquidity is   *)
(* never negative and its subtraction never aborts.                        *)
C1_AssetsCoverLoans ==
    /\ totalAssets >= outstandingLoans
    /\ availableLiquidity >= 0

(* a withdrawal has taken all the liquidity a running loan left *)
C1_Witness ==
    /\ last.op = "withdraw"
    /\ outstandingLoans > 0
    /\ totalAssets = outstandingLoans

(* C2: the shares of all depositors add up to totalShares.                 *)
C2_SharesSum == Sum(shares) = totalShares

(* both depositors hold shares priced above one asset, after a withdrawal *)
C2_Witness ==
    /\ last.op = "withdraw"
    /\ \A u \in Users : shares[u] > 0
    /\ totalAssets > totalShares

(* C3: a successful operation with shares in issue before and after never  *)
(* lowers the share price A/S for the holders other than the account that  *)
(* withdraws in that step: A'/S' >= A/S, compared as A'*S >= A*S'.         *)
C3_PriceKept ==
    [][ ( /\ totalShares > 0
          /\ totalShares' > 0
          /\ (last'.op = "withdraw"
                 => \E h \in Users \ {last'.args.from} : shares[h] > 0) )
        => totalAssets' * totalShares >= totalAssets * totalShares' ]_vars

(* C4: fundLoan and receiveRepayment change the vault only for the bound   *)
(* loan manager; any other caller, the owner and anyone before a binding   *)
(* included, gets NotLoanManager and changes nothing.                      *)
C4_OnlyManager ==
    \A c \in Holders \cup {ZERO} :
        c # loanManager =>
            /\ \A a \in Amounts : fundLoanErr(c, "bob", a) = "NotLoanManager"
            /\ \A p \in Principals, q \in Principals :
                   receiveRepaymentErr(c, p, q) = "NotLoanManager"

C4_DirectByManager ==
    ( /\ last'.op \in {"fundLoan", "receiveRepayment"}
      /\ vaultVars' # vaultVars )
    => last'.caller = loanManager

C5_SucceedsOnlyOnce ==
    \A c \in Admins, m \in Managers :
        setLoanManagerErr(c, m) = "ok"
            <=> (c = OWNER /\ m # ZERO /\ ~loanManagerSet)

C5_Frozen ==
    loanManagerSet => (loanManagerSet' /\ loanManager' = loanManager)

(* C5 as stated: every further setLoanManager call fails with              *)
(* LoanManagerAlreadySet.                                                  *)
C5_AsStated ==
    /\ [](/\ C5_SucceedsOnlyOnce
          /\ loanManagerSet =>
                \A c \in Admins, m \in Managers :
                    setLoanManagerErr(c, m) = "LoanManagerAlreadySet")
    /\ [][C5_Frozen]_vars

(* C5, amended: every further call fails, with LoanManagerAlreadySet when  *)
(* the owner makes it and as an unauthorized call otherwise.               *)
C5_Amended ==
    /\ [](/\ C5_SucceedsOnlyOnce
          /\ loanManagerSet =>
                \A c \in Admins, m \in Managers :
                    setLoanManagerErr(c, m) =
                        IF c = OWNER THEN "LoanManagerAlreadySet"
                        ELSE "OwnableUnauthorizedAccount")
    /\ [][C5_Frozen]_vars

(* bound, used by the manager, and the owner's attempt to bind another     *)
(* address is refused                                                      *)
C5_Witness ==
    /\ loanManagerSet
    /\ loanManager = OWNER
    /\ last.op = "fundLoan"
    /\ setLoanManagerErr(OWNER, LM) = "LoanManagerAlreadySet"

(* C6: principalRepaid <= principal for every loan, whatever the amounts   *)
(* of the repay calls.                                                     *)
C6_RepaidWithinPrincipal ==
    \A i \in LoanIds : loans[i].principalRepaid <= loans[i].principal

(* a repay of more than was owed has paid a loan off *)
C6_Witness ==
    /\ last.op = "repay"
    /\ last.args.amt = MaxAmount + 1
    /\ loans[last.args.id].interestPaid = 0
    /\ loans[last.args.id].principal > 0
    /\ loans[last.args.id].principalRepaid = loans[last.args.id].principal

(* C7: with the vault unbound or bound to LoanManager, outstandingLoans is *)
(* the sum of principal - principalRepaid over the disbursed loans (loans  *)
(* not disbursed count nothing, closed loans 0), so the subtraction in     *)
(* receiveRepayment never underflows.                                      *)
C7_OutstandingIsOwed ==
    Legit =>
        /\ outstandingLoans = Sum(Owed)
        /\ \A i \in LoanIds : (loans[i].disbursed /\ ~loans[i].active)
                                  => Owed[i] = 0
        /\ \A c \in Users, i \in LoanIds, a \in RepayAmounts :
               repayErr(c, i, a) # "Panic"

(* one loan closed and another one running *)
C7_Witness ==
    /\ loanManager = LM
    /\ outstandingLoans > 0
    /\ \E i \in LoanIds : loans[i].disbursed /\ ~loans[i].active
    /\ \E j \in LoanIds : loans[j].disbursed /\ loans[j].active
                             /\ Owed[j] > 0

C8_Custody == bal[VAULT] = totalAssets - outstandingLoans

C8_Conserved ==
    /\ bal[LM] = 0
    /\ Sum(bal) = InitBalance * Cardinality(Users)

C9_BurnCoversPayout ==
    [][ totalAssets' < totalAssets
        => (totalShares - totalShares') * totalAssets
              >= (totalAssets - totalAssets') * totalShares ]_vars

(* C10: after a deposit of X to oneself and the immediate withdrawal of    *)
(* Y = convertToAssets(convertToShares(X)): Y <= X, X - Y is less than one *)
(* share's price A1/S1 plus one, the account's assets plus share value is  *)
(* not above what it was, and the other holders' share value not below.    *)
(* Values are compared exactly, with denominators multiplied out; t.S0 = 0 *)
(* or totalShares = 0 means the shares in question are worth nothing.      *)
C10_RoundTrip ==
    last.trip.phase = "returned" =>
        LET t  == last.trip
            u  == last.caller
            Y  == last.args.amt
            A  == totalAssets
            S  == totalShares
            h  == shares[u]
            D0 == IF t.S0 = 0 THEN 1 ELSE t.S0
            D  == IF S = 0 THEN 1 ELSE S
        IN  /\ Y <= t.X
            /\ (t.X - Y - 1) * t.S1 < t.A1
            /\ (Y - t.X) * D * D0 + h * A * D0 <= t.h0 * t.A0 * D
            /\ (S - h) * A * D0 >= (t.S0 - t.h0) * t.A0 * D

(* C11: a withdraw of more than availableLiquidity fails with             *)
(* InsufficientLiquidity, never with InsufficientShares, whatever shares   *)
(* the owner holds and whoever calls; no successful withdraw pays out more *)
(* than the liquidity there was.                                           *)
C11_PaidWithinLiquidity ==
    (last'.op = "withdraw") => last'.args.amt <= availableLiquidity

C11_Error(receivers) ==
    \A c \in Users, o \in Users, r \in receivers, a \in Amounts :
        a > availableLiquidity
            => withdrawErr(c, a, r, o) = "InsufficientLiquidity"

(* C11 as stated: for every receiver, the zero address included.           *)
C11_AsStated ==
    /\ []C11_Error(Receivers)
    /\ [][C11_PaidWithinLiquidity]_vars

(* C11, amended: for every receiver other than the zero address, which is  *)
(* refused with ZeroAddress before the liquidity is looked at.             *)
C11_Amended ==
    /\ []C11_Error(Receivers \ {ZERO})
    /\ [][C11_PaidWithinLiquidity]_vars

(* a loan has used liquidity, and an account whose shares would cover the  *)
(* whole pool is refused a withdrawal of one more than the liquidity       *)
C11_Witness ==
    /\ outstandingLoans > 0
    /\ availableLiquidity + 1 \in Amounts
    /\ \E u \in Users :
          /\ shares[u] >= convertToShares(totalAssets)
          /\ shares[u] > 0
          /\ withdrawErr(u, availableLiquidity + 1, u, u)
                 = "InsufficientLiquidity"

(* C12: an account's shares decrease only in a withdraw that the account   *)
(* itself calls as owner; a withdraw with caller # owner is always refused *)
(* and changes nothing.                                                    *)
C12_OwnSharesOnly ==
    /\ [](\A c \in Users, o \in Users, r \in Receivers, a \in Amounts :
              c # o => withdrawErr(c, a, r, o) # "ok")
    /\ [][ \A u \in Users :
              shares'[u] < shares[u]
                 => /\ last'.op = "withdraw"
                    /\ last'.caller = u
                    /\ last'.args.from = u ]_vars

(* an account without shares is refused a withdrawal from the shares of    *)
(* another, although liquidity and shares are there                        *)
C12_Witness ==
    /\ last.op = "withdraw"
    /\ shares["alice"] = 0
    /\ shares["bob"] > 0
    /\ availableLiquidity >= 1
    /\ shares["bob"] >= convertToShares(1)
    /\ withdrawErr("alice", 1, "alice", "bob") = "InsufficientShares"

(* C13: deposit(0, r) and withdraw(0, r, o) fail with ZeroAmount in every  *)
(* state; no successful deposit or withdraw has amount 0.                  *)
C13_ZeroAmount ==
    /\ \A c \in Users, r \in Receivers :
           depositErr(c, 0, r) = "ZeroAmount"
    /\ \A c \in Users, r \in Receivers, o \in Users :
           withdrawErr(c, 0, r, o) = "ZeroAmount"
    /\ last.op \in {"deposit", "withdraw"} => last.args.amt > 0

(* a pool with shares and liquidity, where a zero withdrawal would pass    *)
(* every other check                                                       *)
C13_Witness ==
    /\ last.op = "deposit"
    /\ shares["bob"] > 0
    /\ availableLiquidity > 0
    /\ outstandingLoans > 0
    /\ withdrawErr("bob", 0, "bob", "bob") = "ZeroAmount"

(* C14: a successful deposit(amount, receiver) issues amount shares when   *)
(* totalShares or totalAssets is 0 and floor(amount * S / A) otherwise,    *)
(* credits them to receiver, adds them to totalShares and amount to        *)
(* totalAssets, and changes neither outstandingLoans nor any other         *)
(* account's shares.                                                       *)
C14_DepositEffect ==
    [][ (last'.op = "deposit") =>
          LET amount == last'.args.amt
              sharesIssued ==
                  IF totalShares = 0 \/ totalAssets = 0 THEN amount
                  ELSE (amount * totalShares) \div totalAssets
          IN /\ shares' = [shares EXCEPT ![last'.args.to] = @ + sharesIssued]
             /\ totalShares' = totalShares + sharesIssued
             /\ totalAssets' = totalAssets + amount
             /\ outstandingLoans' = outstandingLoans ]_vars

(* a deposit paid by one account for another, into a pool whose share is   *)
(* worth more than one asset                                               *)
C14_Witness ==
    /\ last.op = "deposit"
    /\ last.caller # last.args.to
    /\ shares[last.args.to] > 0
    /\ totalShares > 0
    /\ totalAssets > totalShares + last.args.amt

(* C15: a successful approveAndDisburse of a loan with principal P adds P  *)
(* to outstandingLoans and leaves totalAssets, totalShares and all share   *)
(* balances, hence the share price, as they were.                          *)
C15_DisburseEffect ==
    [][ (last'.op = "approveAndDisburse") =>
          /\ outstandingLoans' =
                 outstandingLoans + loans[last'.args.id].principal
          /\ loans[last'.args.id].principal > 0
          /\ totalAssets' = totalAssets
          /\ totalShares' = totalShares
          /\ shares' = shares
          /\ convertToAssets(1)' = convertToAssets(1) ]_vars

(* a loan disbursed from a pool with both depositors in it *)
C15_Witness ==
    /\ last.op = "approveAndDisburse"
    /\ outstandingLoans > 0
    /\ \A u \in Users : shares[u] > 0

(* What a repay step did to the loan it names, read off the two states. *)
PaidInterest  == loans'[last'.args.id].interestPaid
                     - loans[last'.args.id].interestPaid
PaidPrincipal == loans'[last'.args.id].principalRepaid
                     - loans[last'.args.id].principalRepaid
Remaining(i)  == loans[i].principal - loans[i].principalRepaid

(* C16: repay splits interest first: with interestDue = accruedInterest    *)
(* and remaining = principal - principalRepaid at the call, amount <=      *)
(* interestDue gives interestPortion = amount and principalPortion = 0,    *)
(* otherwise interestPortion = interestDue and principalPortion =          *)
(* min(amount - interestDue, remaining); the payer is charged exactly      *)
(* their sum, min(amount, totalOwed), and nothing stays with LoanManager.  *)
C16_Waterfall ==
    [][ (last'.op = "repay") =>
          LET id          == last'.args.id
              amount      == last'.args.amt
              interestDue == accruedInterest(id)
              pulled      == bal[last'.caller] - bal'[last'.caller]
          IN /\ amount <= interestDue
                   => (PaidInterest = amount /\ PaidPrincipal = 0)
             /\ amount > interestDue
                   => /\ PaidInterest = interestDue
                      /\ PaidPrincipal = Min(amount - interestDue,
                                             Remaining(id))
             /\ pulled = PaidInterest + PaidPrincipal
             /\ pulled = Min(amount, totalOwed(id))
             /\ bal'[LM] = 0 ]_vars

(* the first repayment of a loan, of exactly the interest accrued since    *)
(* disbursement: no principal repaid                                       *)
C16_Witness ==
    /\ last.op = "repay"
    /\ last.args.amt > 0
    /\ loans[last.args.id].principalRepaid = 0
    /\ loans[last.args.id].interestPaid = last.args.amt
    /\ last.args.amt =
          (loans[last.args.id].principal * loans[last.args.id].aprBps
              * (now - loans[last.args.id].startTime))
          \div (BPS_DENOMINATOR * SECONDS_PER_YEAR)

(* C17: a successful repay of exactly totalOwed leaves principalRepaid =   *)
(* principal; from then on, at every time, accruedInterest and totalOwed   *)
(* are 0 and closeLoan by the borrower succeeds while the loan is active.  *)
C17_Settled(i) ==
    loans[i].disbursed /\ loans[i].principalRepaid = loans[i].principal

C17_PayoffSettles ==
    /\ [][ (last'.op = "repay" /\ last'.args.amt = totalOwed(last'.args.id))
              => /\ loans'[last'.args.id].disbursed
                 /\ loans'[last'.args.id].principalRepaid
                        = loans'[last'.args.id].principal ]_vars
    /\ [][ \A i \in LoanIds : C17_Settled(i) => C17_Settled(i)' ]_vars
    /\ [](\A i \in LoanIds :
             C17_Settled(i)
                => /\ accruedInterest(i) = 0
                   /\ totalOwed(i) = 0
                   /\ loans[i].active
                         => closeLoanErr(loans[i].borrower, i) = "ok")

(* principal and accrued interest paid off in one repay of totalOwed, some *)
(* time after disbursement; the borrower can close the loan                *)
C17_Witness ==
    /\ last.op = "repay"
    /\ now > loans[last.args.id].startTime
    /\ loans[last.args.id].interestPaid > 0
    /\ loans[last.args.id].principalRepaid = loans[last.args.id].principal
    /\ last.args.amt = loans[last.args.id].principal
                          + loans[last.args.id].interestPaid
    /\ closeLoanErr(loans[last.args.id].borrower, last.args.id) = "ok"

(* C18: on every successful repay, fee = floor(interestPortion *           *)
(* agentFeeBps / 10000) <= interestPortion; totalAgentFees grows by fee,   *)
(* totalAssets by interestPortion - fee, outstandingLoans falls by the     *)
(* whole principalPortion, totalShares stays.                              *)
C18_FeeFromInterest ==
    [][ (last'.op = "repay") =>
          LET fee == (PaidInterest * agentFeeBps) \div 10000
          IN /\ fee <= PaidInterest
             /\ totalAgentFees' = totalAgentFees + fee
             /\ bal'[agentTreasury] = bal[agentTreasury] + fee
             /\ totalAssets' = totalAssets + PaidInterest - fee
             /\ outstandingLoans' = outstandingLoans - PaidPrincipal
             /\ totalShares' = totalShares ]_vars

(* one repay that paid interest with a fee on it and part of the principal *)
C18_Witness ==
    /\ last.op = "repay"
    /\ totalAgentFees > 0
    /\ loans[last.args.id].principalRepaid > 0
    /\ loans[last.args.id].principalRepaid < loans[last.args.id].principal
    /\ last.args.amt = loans[last.args.id].principalRepaid
                          + loans[last.args.id].interestPaid

(* C19: accruedInterest is 0 for a loan that is not disbursed, not active  *)
(* or has nothing remaining, and otherwise floor(remaining * aprBps *      *)
(* (now - lastPaymentTime) / (10000 * one year)); totalOwed is remaining   *)
(* plus that.                                                              *)
C19_LinearInterest ==
    \A i \in LoanIds :
        LET linear == IF \/ ~loans[i].disbursed
                         \/ ~loans[i].active
                         \/ Remaining(i) = 0
                      THEN 0
                      ELSE (Remaining(i) * loans[i].aprBps
                               * (now - loans[i].lastPaymentTime))
                           \div (10000 * 365 * DAY)
        IN /\ accruedInterest(i) = linear
           /\ totalOwed(i) = Remaining(i) + linear

(* a partly repaid loan whose interest since the last payment is positive  *)
(* and rounded down                                                        *)
C19_Witness ==
    \E i \in LoanIds :
        /\ loans[i].disbursed /\ loans[i].active
        /\ loans[i].principalRepaid > 0
        /\ Remaining(i) > 0
        /\ accruedInterest(i) > 0
        /\ (Remaining(i) * loans[i].aprBps * (now - loans[i].lastPaymentTime))
              % (10000 * 365 * DAY) # 0

(* C20: disbursement is a one-way latch: approveAndDisburse succeeds only  *)
(* for a loan not yet disbursed and sets the flag, the flag once true      *)
(* stays true, and a further approveAndDisburse of the loan fails.         *)
C20_Once ==
    (last'.op = "approveAndDisburse")
        => /\ ~loans[last'.args.id].disbursed
           /\ loans'[last'.args.id].disbursed

C20_Latch == \A i \in LoanIds : loans[i].disbursed => loans'[i].disbursed

(* C20 as stated: a second call fails with LoanAlreadyDisbursed.           *)
C20_AsStated ==
    /\ [][C20_Once /\ C20_Latch]_vars
    /\ [](\A i \in LoanIds, c \in Admins :
             loans[i].disbursed
                => approveAndDisburseErr(c, i) = "LoanAlreadyDisbursed")

(* C20, amended: a second call fails, with LoanAlreadyDisbursed when the   *)
(* owner makes it while the loan is active; a closed loan is refused with  *)
(* LoanNotActive and another caller by the owner check.                    *)
C20_Amended ==
    /\ [][C20_Once /\ C20_Latch]_vars
    /\ [](\A i \in LoanIds, c \in Admins :
             loans[i].disbursed
                => approveAndDisburseErr(c, i) =
                      IF c # OWNER THEN "OwnableUnauthorizedAccount"
                      ELSE IF ~loans[i].active THEN "LoanNotActive"
                      ELSE "LoanAlreadyDisbursed")

(* a closed loan and a running one, both disbursed; the pool could fund    *)
(* the running one again                                                   *)
C20_Witness ==
    /\ \E i \in LoanIds :
          /\ loans[i].disbursed /\ ~loans[i].active
          /\ approveAndDisburseErr(OWNER, i) = "LoanNotActive"
    /\ \E j \in LoanIds :
          /\ loans[j].disbursed /\ loans[j].active
          /\ availableLiquidity >= loans[j].principal
          /\ approveAndDisburseErr(OWNER, j) = "LoanAlreadyDisbursed"

(* every account that can send a transaction in the model *)
AnyCaller == Users \cup {OWNER, LM}

Requested(i) == loans[i].borrower # ZERO /\ ~loans[i].disbursed

(* C21: repay and closeLoan never succeed on a loan that has not been      *)
(* disbursed, whoever calls: a successful repay or closeLoan names a       *)
(* disbursed loan, and a requested loan stays active (it never goes from   *)
(* Requested to Closed) with closeLoan refused for every caller.           *)
C21_OnlyDisbursed ==
    (last'.op \in {"repay", "closeLoan"}) => loans[last'.args.id].disbursed

C21_StaysRequested ==
    \A i \in LoanIds :
        Requested(i)
            => /\ loans[i].active
               /\ \A c \in AnyCaller : closeLoanErr(c, i) # "ok"

(* C21 as stated: repay on such a loan fails with LoanNotDisbursed.        *)
C21_AsStated ==
    /\ [][C21_OnlyDisbursed]_vars
    /\ [](C21_StaysRequested
           /\ \A i \in LoanIds, c \in AnyCaller, a \in RepayAmounts :
                  Requested(i) => repayErr(c, i, a) = "LoanNotDisbursed")

(* C21, amended: repay of a non-zero amount fails with LoanNotDisbursed;   *)
(* a zero amount is refused earlier, with ZeroAmount.                      *)
C21_Amended ==
    /\ [][C21_OnlyDisbursed]_vars
    /\ [](C21_StaysRequested
           /\ \A i \in LoanIds, c \in AnyCaller, a \in RepayAmounts :
                  Requested(i)
                     => repayErr(c, i, a) = IF a = 0 THEN "ZeroAmount"
                                            ELSE "LoanNotDisbursed")

(* a requested loan whose borrower holds the whole principal and whose     *)
(* owner tries to close it                                                 *)
C21_Witness ==
    \E i \in LoanIds :
        /\ Requested(i)
        /\ bal[loans[i].borrower] >= loans[i].principal
        /\ repayErr(loans[i].borrower, i, loans[i].principal)
               = "LoanNotDisbursed"
        /\ repayErr(loans[i].borrower, i, 0) = "ZeroAmount"
        /\ closeLoanErr(OWNER, i) = "LoanNotFullyRepaid"
        /\ outstandingLoans >= loans[i].principal

(* C22: closeLoan succeeds exactly when the loan exists, is active, the    *)
(* caller is its borrower or the owner, and principalRepaid >= principal;  *)
(* a success clears active and changes nothing else; otherwise the call    *)
(* fails with LoanNotFound, LoanNotActive, NotBorrower or                  *)
(* LoanNotFullyRepaid.                                                     *)
C22_MayClose(c, i) ==
    /\ loans[i].borrower # ZERO
    /\ loans[i].active
    /\ c = loans[i].borrower \/ c = OWNER
    /\ loans[i].principalRepaid >= loans[i].principal

C22_Outcome ==
    \A c \in AnyCaller, i \in LoanIds :
        IF C22_MayClose(c, i)
        THEN closeLoanErr(c, i) = "ok"
        ELSE closeLoanErr(c, i) \in {"LoanNotFound", "LoanNotActive",
                                     "NotBorrower", "LoanNotFullyRepaid"}

C22_Effect ==
    (last'.op = "closeLoan")
        => /\ C22_MayClose(last'.caller, last'.args.id)
           /\ loans' = [loans EXCEPT ![last'.args.id].active = FALSE]
           /\ UNCHANGED <<loanCount, totalAgentFees, vaultVars, bindVars,
                           feeVars, rrVars, bal, now>>

C22_CloseLoan == [](C22_Outcome) /\ [][C22_Effect]_vars

(* the owner has just closed a repaid loan of a borrower while the pool    *)
(* still holds deposits                                                    *)
C22_Witness ==
    /\ last.op = "closeLoan"
    /\ last.caller = OWNER
    /\ ~loans[last.args.id].active
    /\ loans[last.args.id].principalRepaid = loans[last.args.id].principal
    /\ loans[last.args.id].principal > 0
    /\ totalAssets > 0

Closed(i) == loans[i].borrower # ZERO /\ ~loans[i].active

(* C23: Closed is terminal: once a loan's active flag is false it stays    *)
(* false and no field of the loan record changes in any later step, and    *)
(* every later closeLoan, repay and approveAndDisburse on the loan fails.  *)
C23_Frozen == \A i \in LoanIds : Closed(i) => loans'[i] = loans[i]

(* C23 as stated: each of the three calls fails with LoanNotActive.        *)
C23_AsStated ==
    /\ [][C23_Frozen]_vars
    /\ [](\A i \in LoanIds, c \in AnyCaller, a \in RepayAmounts :
             Closed(i)
                => /\ closeLoanErr(c, i) = "LoanNotActive"
                   /\ repayErr(c, i, a) = "LoanNotActive"
                   /\ approveAndDisburseErr(c, i) = "LoanNotActive")

(* C23, amended: closeLoan fails with LoanNotActive, repay of a non-zero   *)
(* amount fails with LoanNotActive (a zero amount with ZeroAmount), and    *)
(* approveAndDisburse by the owner fails with LoanNotActive (any other     *)
(* caller is stopped by the owner check).                                  *)
C23_Amended ==
    /\ [][C23_Frozen]_vars
    /\ [](\A i \in LoanIds, c \in AnyCaller, a \in RepayAmounts :
             Closed(i)
                => /\ closeLoanErr(c, i) = "LoanNotActive"
                   /\ repayErr(c, i, a) = IF a = 0 THEN "ZeroAmount"
                                          ELSE "LoanNotActive"
                   /\ approveAndDisburseErr(c, i) =
                          IF c # OWNER THEN "OwnableUnauthorizedAccount"
                          ELSE "LoanNotActive")

(* a closed loan, time having passed since its last payment, whose         *)
(* borrower could pay and whose principal the pool could fund again        *)
C23_Witness ==
    \E i \in LoanIds :
        /\ Closed(i)
        /\ now > loans[i].lastPaymentTime
        /\ bal[loans[i].borrower] > 0
        /\ availableLiquidity >= loans[i].principal
        /\ repayErr(loans[i].borrower, i, 1) = "LoanNotActive"
        /\ closeLoanErr(loans[i].borrower, i) = "LoanNotActive"
        /\ approveAndDisburseErr(loans[i].borrower, i)
               = "OwnableUnauthorizedAccount"

(* C25: approveAndDisburse is operator-only and state-gated.  The cases    *)
(* are taken in the order the claim lists them: a call by anyone but the   *)
(* owner, the borrower included, fails; the owner's call on an id never    *)
(* allocated fails with LoanNotFound, on a closed loan with LoanNotActive, *)
(* on a loan already disbursed with LoanAlreadyDisbursed; a call that      *)
(* succeeds is the owner's, on an active loan not yet disbursed.           *)
C25_Gate ==
    \A i \in LoanIds :
        /\ \A c \in AnyCaller \ {OWNER} :
               approveAndDisburseErr(c, i) \notin {"ok"}
        /\ loans[i].borrower = ZERO
               => approveAndDisburseErr(OWNER, i) = "LoanNotFound"
        /\ Closed(i) => approveAndDisburseErr(OWNER, i) = "LoanNotActive"
        /\ loans[i].borrower # ZERO /\ loans[i].active /\ loans[i].disbursed
               => approveAndDisburseErr(OWNER, i) = "LoanAlreadyDisbursed"

C25_OwnerOnRequested ==
    (last'.op = "approveAndDisburse")
        => /\ last'.caller = OWNER
           /\ Requested(last'.args.id)
           /\ loans[last'.args.id].active

C25_OperatorOnly == [](C25_Gate) /\ [][C25_OwnerOnRequested]_vars

(* a requested loan the owner could disburse and its borrower cannot, next *)
(* to a loan that is already out                                           *)
C25_Witness ==
    \E i \in LoanIds, j \in LoanIds :
        /\ Requested(i)
        /\ approveAndDisburseErr(OWNER, i) = "ok"
        /\ approveAndDisburseErr(loans[i].borrower, i) # "ok"
        /\ loans[j].disbursed /\ loans[j].active
        /\ approveAndDisburseErr(OWNER, j) = "LoanAlreadyDisbursed"

(* the validator's verdict on loan i against the pool, the rules and the   *)
(* verification status of the current state                                *)
ValidationNow(i) ==
    validateNewLoan(loans[i].borrower, loans[i].principal, loans[i].duration,
                    loans[i].aprBps, totalAssets, outstandingLoans)

(* C24: approveAndDisburse validates again at approval time: it succeeds   *)
(* only if validateNewLoan, on the loan's terms and the current            *)
(* totalAssets, outstandingLoans, rules and verification status, returns   *)
(* ok; while that validation fails the owner's approval fails with the     *)
(* validator's reason and the loan stays Requested.                        *)
C24_ValidAtApproval ==
    (last'.op = "approveAndDisburse") => ValidationNow(last'.args.id) = "ok"

C24_StaysRequested ==
    \A i \in LoanIds :
        Requested(i) /\ ValidationNow(i) # "ok" => loans'[i] = loans[i]

C24_Reason ==
    \A i \in LoanIds :
        Requested(i) /\ ValidationNow(i) # "ok"
            => approveAndDisburseErr(OWNER, i) = ValidationNow(i)

ProbePrincipals == 0..(MaxAmount + 1)
ProbeDurations  == {0, SECONDS_PER_YEAR, SECONDS_PER_YEAR + 1}
ProbeAprs       == {499, 20000, 20001}
ProbeAssets     == 0..MaxAmount
ProbeLoans      == 0..1

(* the nine checks in the order of the claim, each with its reason *)
C26_Checks(b, p, d, r, A, O) ==
    << <<rules.requireVerifiedBorrower /\ rules.verifier # ZERO
            /\ b \notin verified,               "Borrower not verified">>,
       <<p < rules.minLoanAmount,                "Loan amount below minimum">>,
       <<p > rules.maxLoanAmount,                "Loan amount above maximum">>,
       <<A > 0 /\ p > (A * rules.maxBorrowerBps) \div 10000,
                                                 "Exceeds borrower cap">>,
       <<A > 0 /\ ((O + p) * 10000) \div A > rules.maxUtilizationBps,
                                                 "Exceeds utilization cap">>,
       <<d > rules.maxLoanDuration,              "Duration exceeds maximum">>,
       <<d = 0,                                  "Duration cannot be zero">>,
       <<r < rules.minAprBps,                    "APR below minimum">>,
       <<r > rules.maxAprBps,                    "APR above maximum">> >>

C26_FirstFailing(checks) ==
    IF \A k \in 1..Len(checks) : ~checks[k][1]
    THEN "ok"
    ELSE checks[CHOOSE k \in 1..Len(checks) :
                    /\ checks[k][1]
                    /\ \A j \in 1..(k - 1) : ~checks[j][1]][2]

(* C26: validateNewLoan returns the reason of the first failing check in   *)
(* the order verification, amount below minimum, amount above maximum,     *)
(* borrower cap, utilization cap (both only when poolAssets > 0),          *)
(* duration above maximum, duration zero, APR below minimum, APR above     *)
(* maximum, and ok iff none fails; requestLoan, once past its zero-amount  *)
(* test, fails with exactly that reason, so a request whose only           *)
(* violation is aprBps < minAprBps fails with "APR below minimum".         *)
C26_FirstFailingReason ==
    /\ \A b \in Users, p \in ProbePrincipals, d \in ProbeDurations :
          \A r \in ProbeAprs, A \in ProbeAssets, O \in ProbeLoans :
              validateNewLoan(b, p, d, r, A, O)
                  = C26_FirstFailing(C26_Checks(b, p, d, r, A, O))
    /\ \A b \in Users, p \in ProbePrincipals \ {0}, d \in ProbeDurations :
          \A r \in ProbeAprs :
              /\ requestLoanErr(b, p, d, r)
                     = validateNewLoan(b, p, d, r, totalAssets,
                                       outstandingLoans)
              /\ (/\ r < rules.minAprBps
                  /\ validateNewLoan(b, p, d, rules.minAprBps, totalAssets,
                                     outstandingLoans) = "ok")
                     => requestLoanErr(b, p, d, r) = "APR below minimum"

(* rules under which a verified borrower's request fails on its rate       *)
(* alone, while another request breaks several rules at once               *)
C26_Witness ==
    /\ totalAssets > 0
    /\ rules.requireVerifiedBorrower /\ rules.verifier # ZERO
    /\ requestLoanErr("alice", 1, SECONDS_PER_YEAR, 20000) = "ok"
    /\ requestLoanErr("alice", 1, SECONDS_PER_YEAR, 499) = "APR below minimum"
    /\ requestLoanErr("alice", MaxAmount + 1, 0, 499)
           = "Loan amount above maximum"
    /\ requestLoanErr("bob", MaxAmount + 1, 0, 499) = "Borrower not verified"
    /\ requestLoanErr("alice", MaxAmount, 0, 499) = "Exceeds borrower cap"

(* every term of a request other than the upper amount bound is            *)
(* acceptable: the amount is not zero and no other check fails             *)
C27_OtherTermsOk(b, p, d, r) ==
    /\ p # 0
    /\ \A k \in (1..9) \ {3} :
           ~C26_Checks(b, p, d, r, totalAssets, outstandingLoans)[k][1]

(* C27: with all other terms acceptable, a request with principal equal    *)
(* to maxLoanAmount succeeds and a request with principal equal to         *)
(* maxLoanAmount + 1 fails with "Loan amount above maximum".               *)
C27_AmountBoundary ==
    \A b \in Users, d \in ProbeDurations, r \in ProbeAprs :
        /\ C27_OtherTermsOk(b, rules.maxLoanAmount, d, r)
               => requestLoanErr(b, rules.maxLoanAmount, d, r) = "ok"
        /\ (\/ C27_OtherTermsOk(b, rules.maxLoanAmount, d, r)
            \/ C27_OtherTermsOk(b, rules.maxLoanAmount + 1, d, r))
               => requestLoanErr(b, rules.maxLoanAmount + 1, d, r)
                      = "Loan amount above maximum"

(* a loan of exactly maxLoanAmount has just been requested from a pool     *)
(* that could also carry one unit more                                     *)
C27_Witness ==
    /\ last.op = "requestLoan"
    /\ last.args.amt = rules.maxLoanAmount
    /\ loans[loanCount].principal = rules.maxLoanAmount
    /\ C27_OtherTermsOk(last.caller, rules.maxLoanAmount + 1,
                        SECONDS_PER_YEAR, last.args.amt2)
    /\ requestLoanErr(last.caller, rules.maxLoanAmount + 1,
                      SECONDS_PER_YEAR, last.args.amt2)
           = "Loan amount above maximum"

(* C28: in every reachable state of the risk configuration, from a         *)
(* construction with any arguments and after any sequence of updateRules,  *)
(* updateLoanAmountBounds, setVerifier and setRequireVerified calls,       *)
(* minAprBps <= maxAprBps, minLoanAmount <= maxLoanAmount,                 *)
(* maxBorrowerBps <= 10000 and maxUtilizationBps <= 10000.                 *)
C28_RulesConsistent ==
    /\ rules.minAprBps <= rules.maxAprBps
    /\ rules.minLoanAmount <= rules.maxLoanAmount
    /\ rules.maxBorrowerBps <= 10000
    /\ rules.maxUtilizationBps <= 10000

ProbeBps == {5000, 10000, 10001}

RuleSetters == {"updateRules", "updateLoanAmountBounds", "setVerifier", "setRequireVerified"}

(* C29: configuration updates are validated before they are accepted.     *)
(* The owner's updateRules with maxBorrowerBps > 10000, maxUtilizationBps  *)
(* > 10000 or minAprBps > maxAprBps, and the owner's                       *)
(* updateLoanAmountBounds with min > max, fail with InvalidConfiguration;  *)
(* any update by another account fails; a configuration field changes     *)
(* only in an accepted update, so every failing call keeps every field.    *)
C29_Refused ==
    /\ \A b \in ProbeBps, u \in ProbeBps, lo \in AprChoices, hi \in AprChoices :
          /\ updateRulesErr(OWNER, b, u, lo, hi)
                 = IF b > 10000 \/ u > 10000 \/ lo > hi
                   THEN "InvalidConfiguration" ELSE "ok"
          /\ \A c \in AnyCaller \ {OWNER} :
                 updateRulesErr(c, b, u, lo, hi) \notin {"ok"}
    /\ \A lo \in ProbePrincipals, hi \in ProbePrincipals :
          /\ updateLoanAmountBoundsErr(OWNER, lo, hi)
                 = IF lo > hi THEN "InvalidConfiguration" ELSE "ok"
          /\ \A c \in AnyCaller \ {OWNER} :
                 updateLoanAmountBoundsErr(c, lo, hi) \notin {"ok"}

C29_Accepted ==
    /\ rules' # rules => last'.op \in RuleSetters
    /\ last'.op \in RuleSetters => last'.caller = OWNER
    /\ last'.op = "updateRules"
          => /\ last'.args.amt <= last'.args.amt2
             /\ rules'.minAprBps = last'.args.amt
             /\ rules'.maxAprBps = last'.args.amt2
             /\ rules'.maxBorrowerBps <= 10000
             /\ rules'.maxUtilizationBps <= 10000
             /\ rules'.minLoanAmount = rules.minLoanAmount
             /\ rules'.maxLoanAmount = rules.maxLoanAmount
    /\ last'.op = "updateLoanAmountBounds"
          => /\ last'.args.amt <= last'.args.amt2
             /\ rules' = [rules EXCEPT !.minLoanAmount = last'.args.amt,
                                       !.maxLoanAmount = last'.args.amt2]

C29_UpdatesValidated == [](C29_Refused) /\ [][C29_Accepted]_vars

(* the owner has just narrowed the APR range to a single rate, the         *)
(* tightest accepted range, on rules that were constructed unchecked       *)
C29_Witness ==
    /\ last.op = "updateRules"
    /\ last.args.amt = last.args.amt2
    /\ rules.minAprBps = rules.maxAprBps
    /\ rules.minLoanAmount > rules.maxLoanAmount
    /\ updateRulesErr(OWNER, 10000, 10000, 20000, 500)
           = "InvalidConfiguration"
    /\ updateLoanAmountBoundsErr("alice", 1, 1) = "OwnableUnauthorizedAccount"

(* verification is required and a verifier is configured *)
GateOn == rules.requireVerifiedBorrower /\ rules.verifier # ZERO

(* C30: whenever verification is required and a non-zero verifier is       *)
(* configured, requestLoan and approveAndDisburse succeed only if the      *)
(* verifier reports the loan's borrower verified at the time of the call,  *)
(* so no loan is created for or disbursed to a borrower reported           *)
(* unverified at that moment; otherwise the call fails.                    *)
C30_OnlyVerified ==
    /\ GateOn /\ last'.op = "requestLoan" => isVerified(last'.caller)
    /\ GateOn /\ last'.op = "approveAndDisburse"
          => isVerified(loans[last'.args.id].borrower)
    /\ GateOn => \A i \in LoanIds :
            /\ loans[i].borrower = ZERO /\ loans'[i].borrower # ZERO
                   => isVerified(loans'[i].borrower)
            /\ ~loans[i].disbursed /\ loans'[i].disbursed
                   => isVerified(loans[i].borrower)

(* C30 as stated: the failure carries the reason "Borrower not verified".  *)
C30_AsStated ==
    /\ [][C30_OnlyVerified]_vars
    /\ [](GateOn =>
            /\ \A b \in Users, p \in ProbePrincipals, d \in ProbeDurations :
                   \A r \in ProbeAprs :
                       ~isVerified(b) => requestLoanErr(b, p, d, r)
                                            = "Borrower not verified"
            /\ \A i \in LoanIds, c \in AnyCaller :
                   loans[i].borrower # ZERO /\ ~isVerified(loans[i].borrower)
                      => approveAndDisburseErr(c, i) = "Borrower not verified")

(* C30, amended: the reason is "Borrower not verified", ahead of every     *)
(* other risk rule, whenever the call gets as far as validation: a         *)
(* requestLoan of a non-zero principal, and the owner's approveAndDisburse *)
(* of an active loan not yet disbursed; a zero principal, another caller,  *)
(* a closed or an already disbursed loan are refused before validation.    *)
C30_Amended ==
    /\ [][C30_OnlyVerified]_vars
    /\ [](GateOn =>
            /\ \A b \in Users, p \in ProbePrincipals, d \in ProbeDurations :
                   \A r \in ProbeAprs :
                       ~isVerified(b)
                          => requestLoanErr(b, p, d, r)
                                = IF p = 0 THEN "ZeroAmount"
                                  ELSE "Borrower not verified"
            /\ \A i \in LoanIds, c \in AnyCaller :
                   loans[i].borrower # ZERO /\ ~isVerified(loans[i].borrower)
                      => approveAndDisburseErr(c, i)
                            = IF c # OWNER THEN "OwnableUnauthorizedAccount"
                              ELSE IF ~loans[i].active THEN "LoanNotActive"
                              ELSE IF loans[i].disbursed
                              THEN "LoanAlreadyDisbursed"
                              ELSE "Borrower not verified")

(* a requested loan, fundable by the bound vault, whose borrower is not    *)
(* verified now that the gate is on, and whose terms break another rule    *)
C30_Witness ==
    \E i \in LoanIds :
        /\ GateOn
        /\ Requested(i)
        /\ ~isVerified(loans[i].borrower)
        /\ loanManager = LM
        /\ availableLiquidity >= loans[i].principal
        /\ loans[i].principal > rules.maxLoanAmount
        /\ approveAndDisburseErr(OWNER, i) = "Borrower not verified"
        /\ requestLoanErr(loans[i].borrower, loans[i].principal,
                          loans[i].duration, loans[i].aprBps)
               = "Borrower not verified"

(* C31: immediately after every successful approveAndDisburse,             *)
(* floor(outstandingLoans * 10000 / totalAssets) <= maxUtilizationBps      *)
(* under the rules of that call, also when several loans were requested    *)
(* against the same earlier pool and are approved one after another.       *)
C31_UtilizationCapped ==
    [][ (last'.op = "approveAndDisburse")
           => /\ totalAssets' > 0
              /\ (outstandingLoans' * 10000) \div totalAssets'
                     <= rules.maxUtilizationBps
              /\ utilizationBps' <= rules'.maxUtilizationBps ]_vars

(* one loan has just been disbursed, and a second one, accepted against    *)
(* the pool before that disbursement, would now exceed the cap             *)
C31_Witness ==
    /\ last.op = "approveAndDisburse"
    /\ outstandingLoans > 0
    /\ utilizationBps < rules.maxUtilizationBps
    /\ \E j \in LoanIds :
          /\ Requested(j)
          /\ j # last.args.id
          /\ ValidationNow(j) = "Exceeds utilization cap"

(* remaining principal of the disbursed loans of borrower b *)
Exposure(b) ==
    Sum([i \in LoanIds |-> IF loans[i].borrower = b THEN Owed[i] ELSE 0])

BorrowerCap == (totalAssets * rules.maxBorrowerBps) \div 10000

C33_Accepted ==
    CASE last'.op = "deposit" ->
            depositErr(last'.caller, last'.args.amt, last'.args.to) = "ok"
      [] last'.op = "withdraw" ->
            withdrawErr(last'.caller, last'.args.amt, last'.args.to,
                        last'.args.from) = "ok"
      [] last'.op = "fundLoan" ->
            fundLoanErr(last'.caller, last'.args.to, last'.args.amt) = "ok"
      [] last'.op = "receiveRepayment" ->
            receiveRepaymentErr(last'.caller, last'.args.amt,
                                last'.args.amt2) = "ok"
      [] last'.op = "requestLoan" ->
            requestLoanErr(last'.caller, last'.args.amt, last'.args.id,
                           last'.args.amt2) = "ok"
      [] last'.op = "approveAndDisburse" ->
            approveAndDisburseErr(last'.caller, last'.args.id) = "ok"
      [] last'.op = "repay" ->
            repayErr(last'.caller, last'.args.id, last'.args.amt) = "ok"
      [] last'.op = "closeLoan" ->
            closeLoanErr(last'.caller, last'.args.id) = "ok"
      [] OTHER -> FALSE

(* C33: every rejected operation leaves the Pool and all Loan records as   *)
(* they were: the Pool, a Loan record or loanCount changes only in a step  *)
(* that is an accepted call.  In particular a loan becomes disbursed only  *)
(* when the whole approveAndDisburse, fundLoan included, is accepted, and  *)
(* outstandingLoans then grows by its principal; a loan that is not        *)
(* disbursed has startTime = lastPaymentTime = 0; loanCount grows only by  *)
(* an accepted requestLoan.                                                *)
C33_Step ==
    /\ (loans' # loans \/ vaultVars' # vaultVars \/ loanCount' # loanCount)
          => C33_Accepted
    /\ \A i \in LoanIds :
          ~loans[i].disbursed /\ loans'[i].disbursed
             => /\ approveAndDisburseErr(OWNER, i) = "ok"
                /\ fundLoanErr(LM, loans[i].borrower, loans[i].principal)
                       = "ok"
                /\ outstandingLoans' = outstandingLoans + loans[i].principal
    /\ loanCount' # loanCount
          => /\ last'.op = "requestLoan"
             /\ loanCount' = loanCount + 1

C33_Undisbursed ==
    \A i \in LoanIds :
        ~loans[i].disbursed
            => loans[i].startTime = 0 /\ loans[i].lastPaymentTime = 0

C33_AllOrNothing == [](C33_Undisbursed) /\ [][C33_Step]_vars

(* a requested loan that passes validation against an emptied pool, where  *)
(* the pool-relative rules are skipped, and that fundLoan rejects          *)
C33_Witness ==
    \E i \in LoanIds :
        /\ Requested(i)
        /\ loanManager = LM
        /\ totalAssets = 0
        /\ ValidationNow(i) = "ok"
        /\ approveAndDisburseErr(OWNER, i) = "InsufficientLiquidity"
        /\ loans[i].startTime = 0 /\ loans[i].lastPaymentTime = 0
        /\ requestLoanErr(loans[i].borrower, 0, loans[i].duration,
                          loans[i].aprBps) = "ZeroAmount"

(* C35: loan ids are unique and sequential.  A record exists (borrower     *)
(* non-zero) exactly for the ids 1..loanCount; loanCount changes only in   *)
(* a successful requestLoan, which raises it by one, so the k-th           *)
(* successful request gets id k and loanCount counts the successful        *)
(* requests; the new loan is stored under the new count with the caller    *)
(* as borrower, the requested terms, principalRepaid = interestPaid = 0,   *)
(* active, not disbursed, startTime = lastPaymentTime = 0, and no other    *)
(* loan and no vault state changes.                                        *)
C35_Allocated ==
    /\ loanCount \in 0..MaxLoans
    /\ \A i \in LoanIds : loans[i].borrower # ZERO <=> i \in 1..loanCount

C35_Request ==
    /\ loanCount' # loanCount => last'.op = "requestLoan"
    /\ last'.op = "requestLoan"
          => /\ loanCount' = loanCount + 1
             /\ loans[loanCount'] = EmptyLoan
             /\ loans'[loanCount'].borrower = last'.caller
             /\ loans'[loanCount'].principal = last'.args.amt
             /\ loans'[loanCount'].aprBps = last'.args.amt2
             /\ loans'[loanCount'].duration = last'.args.id
             /\ loans'[loanCount'].principalRepaid = 0
             /\ loans'[loanCount'].interestPaid = 0
             /\ loans'[loanCount'].active
             /\ ~loans'[loanCount'].disbursed
             /\ loans'[loanCount'].startTime = 0
             /\ loans'[loanCount'].lastPaymentTime = 0
             /\ \A i \in LoanIds \ {loanCount'} : loans'[i] = loans[i]
             /\ UNCHANGED <<vaultVars, bal>>

C35_SequentialIds == [](C35_Allocated) /\ [][C35_Request]_vars

(* the second request has just been stored under id 2 while the first      *)
(* loan is out                                                             *)
C35_Witness ==
    /\ last.op = "requestLoan"
    /\ loanCount = 2
    /\ loans[1].disbursed
    /\ outstandingLoans > 0
    /\ loans[2].borrower = last.caller
    /\ ~loans[2].disbursed

(* C36: a loan's terms are frozen at request time: borrower, principal,    *)
(* aprBps and duration of an existing loan are the same after every step,  *)
(* be it approveAndDisburse, repay, closeLoan or a later requestLoan, and  *)
(* principalRepaid and interestPaid never decrease from one state to the   *)
(* next.                                                                   *)
C36_Step ==
    \A i \in LoanIds :
        /\ loans[i].borrower # ZERO
              => /\ loans'[i].borrower = loans[i].borrower
                 /\ loans'[i].principal = loans[i].principal
                 /\ loans'[i].aprBps = loans[i].aprBps
                 /\ loans'[i].duration = loans[i].duration
        /\ loans'[i].principalRepaid >= loans[i].principalRepaid
        /\ loans'[i].interestPaid >= loans[i].interestPaid

C36_TermsFrozen == [][C36_Step]_vars

(* two loans exist and a repayment has just raised both running totals of  *)
(* one of them                                                             *)
C36_Witness ==
    /\ last.op = "repay"
    /\ loanCount = 2
    /\ loans[last.args.id].principalRepaid > 0
    /\ loans[last.args.id].interestPaid > 0

(* C37: for every loan, in every reachable state: not disbursed implies    *)
(* startTime = 0 and lastPaymentTime = 0; disbursed implies startTime <=   *)
(* lastPaymentTime <= now; startTime is set to the time of the disbursing  *)
(* call and never changes afterwards, and every successful repay sets      *)
(* lastPaymentTime to the time of the call.                                *)
C37_Times ==
    \A i \in LoanIds :
        /\ ~loans[i].disbursed
              => loans[i].startTime = 0 /\ loans[i].lastPaymentTime = 0
        /\ loans[i].disbursed
              => /\ loans[i].startTime <= loans[i].lastPaymentTime
                 /\ loans[i].lastPaymentTime <= now

C37_Step ==
    /\ last'.op = "approveAndDisburse"
          => /\ loans'[last'.args.id].startTime = now
             /\ loans'[last'.args.id].lastPaymentTime = now
    /\ last'.op = "repay" => loans'[last'.args.id].lastPaymentTime = now
    /\ \A i \in LoanIds :
          loans[i].disbursed => loans'[i].startTime = loans[i].startTime

C37_Timestamps == [](C37_Times) /\ [][C37_Step]_vars

(* a repayment made some time after the disbursement, with time having     *)
(* passed again since                                                      *)
C37_Witness ==
    \E i \in LoanIds :
        /\ loans[i].disbursed
        /\ loans[i].interestPaid > 0
        /\ StartTime < loans[i].startTime
        /\ loans[i].startTime < loans[i].lastPaymentTime
        /\ loans[i].lastPaymentTime < now

(* C38: for every successful repay on a disbursed active loan, totalOwed   *)
(* just after the call, at the same timestamp, equals totalOwed just       *)
(* before the call minus the amount pulled from the payer; a payment       *)
(* smaller than the accrued interest leaves the rest of it owed.           *)
C38_DebtConserved ==
    [][ (last'.op = "repay")
           => \A i \in LoanIds :
                 last'.args.id = i
                    => totalOwed(i)'
                          = totalOwed(i)
                               - (bal[last'.caller] - bal'[last'.caller]) ]_vars

(* C39: an account holding zero shares can never successfully withdraw:    *)
(* in every reachable pool state a withdraw of a positive amount from an   *)
(* owner with shares[owner] = 0 fails, and no successful withdraw has an   *)
(* owner that held no share before the call.                               *)
C39_NoSharesNoWithdraw ==
    /\ [](\A c \in Users, o \in Users, r \in Receivers, a \in Amounts :
              (a > 0 /\ shares[o] = 0) => withdrawErr(c, a, r, o) # "ok")
    /\ [][ last'.op = "withdraw" => shares[last'.args.from] > 0 ]_vars

(* C40: a loan is never closed while anything is owed on it.  In every     *)
(* state a loan with principalRepaid = principal has accruedInterest = 0   *)
(* and totalOwed = 0, and so has every closed loan; at every successful    *)
(* closeLoan totalOwed of the loan is 0; a successful repay on a fully     *)
(* repaid active loan pulls nothing and changes no balance of the asset    *)
(* and no total of the vault.                                              *)
C40_Settled ==
    \A i \in LoanIds :
        /\ loans[i].principalRepaid = loans[i].principal
              => (accruedInterest(i) = 0 /\ totalOwed(i) = 0)
        /\ Closed(i) => totalOwed(i) = 0

C40_Step ==
    /\ last'.op = "closeLoan"
          => \A i \in LoanIds :
                last'.args.id = i => (totalOwed(i) = 0 /\ totalOwed(i)' = 0)
    /\ (/\ last'.op = "repay"
        /\ loans[last'.args.id].principalRepaid
               = loans[last'.args.id].principal)
          => /\ bal' = bal
             /\ UNCHANGED <<totalAssets, outstandingLoans, totalAgentFees>>
             /\ loans'[last'.args.id].principalRepaid
                   = loans[last'.args.id].principalRepaid
             /\ loans'[last'.args.id].interestPaid
                   = loans[last'.args.id].interestPaid

C40_NothingOwedAtClose == [](C40_Settled) /\ [][C40_Step]_vars

(* a loan closed some time after its last payment, interest having been    *)
(* paid on it                                                              *)
C40_Witness ==
    /\ last.op = "closeLoan"
    /\ Closed(last.args.id)
    /\ loans[last.args.id].interestPaid > 0
    /\ loans[last.args.id].lastPaymentTime < now

(* C34: re-entrancy is prevented: while a mutating operation of the loan   *)
(* ledger or of the vault is executing, every call that a callback of the  *)
(* asset transfer makes into a mutating entry point is rejected: between   *)
(* the entry of the outer call and its end no nested call changes the      *)
(* state of the vault, of the loans or of the balances.                    *)
C34_NestedRejected ==
    [][ (frame.pos # "idle" /\ frame'.pos # "idle")
           => UNCHANGED <<vaultVars, bindVars, lmVars, feeVars, rrVars, bal,
                          now, last>> ]_vars

====
